---- MODULE Spec2Model ----
(***************************************************************************)
(* elm-pwa: the service worker produced by generateSW (install, activate   *)
(* and fetch handlers) running against the browser's CacheStorage.         *)
(*                                                                         *)
(* URLs are sequences of characters so that String.startsWith is computed  *)
(* character by character.  Two versions of the worker are deployed one    *)
(* after the other (worker 1, then worker 2), each with its own SW_CONFIG. *)
(***************************************************************************)
EXTENDS Integers, Sequences, FiniteSets, TLC

\* ------------------------------------------------------------------ bounds
MaxEvents == 1        \* fetch events dispatched in one run

\* ------------------------------------------------------------------ inputs
Workers == {1, 2}

Root == <<"/">>
Urls == {Root, <<"/", "a">>, <<"/", "a", "x">>}
Methods == {"GET", "POST"}
Modes == {"navigate", "cors"}
\* Navigations are GET requests; every other request is a GET or a POST.
Requests == {r \in [mode : Modes, method : Methods, url : Urls] :
                r.mode = "navigate" => r.method = "GET"}

PrecacheLists == {<<Root>>, <<Root, <<"/", "a">>>>}

\* An optional configuration field: <<>> when left out, <<v>> when given.
Given(v) == <<v>>
NotGiven == <<>>

\* The prefix lists a configuration may give: none, one prefix, and two
\* prefixes of which the first is an extension of the second.
PrefixLists == {<<>>, << <<"/", "a">> >>, << <<"/", "a", "x">>, <<"/", "a">> >>}
Optional(l) == IF l = <<>> THEN {NotGiven, Given(l)} ELSE {Given(l)}

\* The configurations handed to generateSW, each optional field given or left out.
Configs ==
    UNION {{[cacheName |-> "v1", precacheUrls |-> p, navigationFallback |-> f,
             networkFirstPrefixes |-> nf, networkOnlyPrefixes |-> no] :
                p \in PrecacheLists,
                f \in {NotGiven, Given(<<>>), Given(<<"/", "a">>)},
                nf \in Optional(pr[1]),
                no \in Optional(pr[2])} : pr \in PrefixLists \X PrefixLists}

\* A response: the URL it answers, its ok flag, and who fetched it.  The two
\* non-responses have the same shape: the value of a cache miss and the
\* rejection of fetch().
Response(u, okFlag, who) == [kind |-> "response", url |-> u, ok |-> okFlag, by |-> who]
Undefined == [kind |-> "undefined", url |-> <<>>, ok |-> FALSE, by |-> <<"none", 0>>]
NetworkError == [kind |-> "TypeError", url |-> <<>>, ok |-> FALSE, by |-> <<"none", 0>>]
IsResponse(r) == r.kind = "response"
OldDeploy == <<"old", 0>>
InstallOf(w) == <<"install", w>>
FetchOf(e) == <<"fetch", e>>

\* --------------------------------------------------------------- generateSW
\* Mutant: a sixth field of the configuration finds its way into the output.
generateSWLeaks(config) ==
    [f \in ({"cacheName", "precacheUrls"} \cap DOMAIN config)
            \cup {"navigationFallback", "networkFirstPrefixes", "networkOnlyPrefixes"} |->
       CASE f = "navigationFallback" ->
               IF config.navigationFallback = NotGiven
                  \/ config.navigationFallback[1] = <<>>
               THEN Root ELSE config.navigationFallback[1]
         [] f = "networkFirstPrefixes" ->
               IF config.networkFirstPrefixes = NotGiven
               THEN <<>> ELSE config.networkFirstPrefixes[1]
         [] f = "networkOnlyPrefixes" ->
               IF "offlineFallback" \in DOMAIN config /\ config.offlineFallback # NotGiven
               THEN config.offlineFallback[1]
               ELSE IF config.networkOnlyPrefixes = NotGiven
               THEN <<>> ELSE config.networkOnlyPrefixes[1]
         [] OTHER -> config[f]]

\* The configuration literal embedded in the worker: the two required fields
\* as given, the three optional fields with their defaults (x || d).  A
\* required field the configuration does not have is undefined in the object
\* handed to JSON.stringify, which leaves it out of the literal.
generateSW(config) ==
    [f \in ({"cacheName", "precacheUrls"} \cap DOMAIN config)
            \cup {"navigationFallback", "networkFirstPrefixes", "networkOnlyPrefixes"} |->
       CASE f = "navigationFallback" ->
               IF config.navigationFallback = NotGiven
                  \/ config.navigationFallback[1] = <<>>
               THEN Root ELSE config.navigationFallback[1]
         [] f = "networkFirstPrefixes" ->
               IF config.networkFirstPrefixes = NotGiven
               THEN <<>> ELSE config.networkFirstPrefixes[1]
         [] f = "networkOnlyPrefixes" ->
               IF config.networkOnlyPrefixes = NotGiven
               THEN <<>> ELSE config.networkOnlyPrefixes[1]
         [] OTHER -> config[f]]

\* ------------------------------------------------------------ CacheStorage
\* caches is the browser's CacheStorage: the stores in creation order, each
\* a name and its entries (URL -> response, or Undefined).
EmptyEntries == [u \in Urls |-> Undefined]
StoreNames(cs) == {cs[i].name : i \in 1..Len(cs)}
StoreIndex(cs, n) == CHOOSE i \in 1..Len(cs) : cs[i].name = n

\* caches.open(name): the store of that name, created (last) if missing.
CachesOpen(cs, n) ==
    IF n \in StoreNames(cs) THEN cs
    ELSE Append(cs, [name |-> n, entries |-> EmptyEntries])

\* caches.delete(name)
CachesDelete(cs, n) == SelectSeq(cs, LAMBDA s : s.name # n)

\* cache.match(request) on one store: only GET requests match.
CacheMatch(store, method, u) ==
    IF method = "GET" THEN store.entries[u] ELSE Undefined

\* caches.match(request): the first store, in creation order, that matches.
RECURSIVE CachesMatchFrom(_, _, _, _)
CachesMatchFrom(cs, i, method, u) ==
    IF i > Len(cs) THEN Undefined
    ELSE IF IsResponse(CacheMatch(cs[i], method, u))
         THEN CacheMatch(cs[i], method, u)
         ELSE CachesMatchFrom(cs, i + 1, method, u)

CachesMatch(cs, method, u) == CachesMatchFrom(cs, 1, method, u)

\* cache.put(request, response) on the store named n (a store deleted in the
\* meantime is detached: the write is not visible in CacheStorage).
CachePut(cs, n, u, resp) ==
    IF n \in StoreNames(cs)
    THEN [cs EXCEPT ![StoreIndex(cs, n)].entries[u] = resp]
    ELSE cs


\* ------------------------------------------------------------------- state
VARIABLES
    SW_CONFIG,   \* per worker version: the embedded configuration literal
    caches,      \* CacheStorage of the origin
    state,       \* per worker version: ServiceWorker.state
    installing,  \* per worker version: progress of the install handler
    activating,  \* per worker version: progress of the activate handler
    events       \* the fetch events dispatched so far, in dispatch order

\* The page that runs the bridge (init of the page-side module), the browser
\* around it and the registration's worker versions as the page sees them.
VARIABLES
    hasServiceWorker,   \* "serviceWorker" in navigator
    NotificationApi,    \* "absent", or Notification.permission
    onLine,             \* navigator.onLine
    readyState,         \* "loading" until the window's load event has fired
    listeners,          \* the listeners the bridge has attached so far
    newWorkers,         \* the versions that carry a statechange listener
    pwaIn,              \* the messages sent with pwaIn.send, in order
    registering,        \* the promise of navigator.serviceWorker.register
    refreshing,         \* the guard flag of the controllerchange listener
    deferredPrompt,     \* the retained beforeinstallprompt event (0: none)
    prompts,            \* the beforeinstallprompt events fired so far
    lookups,            \* pending getRegistration() promises of acceptUpdate
    reloads,            \* calls of location.reload
    controllerchanges,  \* controllerchange events the bridge's listener has handled
    swState,            \* per version: ServiceWorker.state
    skipWaitingFlag,    \* per version: the skip waiting flag
    inbox,              \* per version: messages posted to it, not yet handled
    controller,         \* navigator.serviceWorker.controller (0: null)
    commands,           \* messages the application has sent on pwaOut
    posted,             \* messages other scripts have posted to the workers
    browserEvents       \* spontaneous browser events fired so far

\* Push and notifications: the Push API as the page sees it, the message the
\* pwaOut subscriber handled last, and the worker's push and notificationclick
\* handlers with the window clients they reach.
VARIABLES
    pushManager,           \* reg.pushManager exists
    subscription,          \* the registration's push subscription (0: null)
    pending,               \* per operation: promises of the push slice not yet settled
    msg,                   \* the message the pwaOut subscriber handled last
    applicationServerKey,  \* the bytes of the server's VAPID public key
    keyArray,              \* the Uint8Array the bridge decoded last
    pushEvents,            \* event.data of the push events dispatched, in order
    notifications,         \* the notifications shown, in order
    clients,               \* the window clients of the origin, in matchAll order
    clicks,                \* the notificationclick handlers started, in order
    opened                 \* the urls passed to clients.openWindow

\* The build script.
VARIABLES
    generated              \* the calls of generateSW: configuration and output

\* The Elm application.
VARIABLES
    decoded                \* the values decodeEvent was applied to, with its results

workerVars == <<SW_CONFIG, caches, state, installing, activating, events>>
platformVars == <<swState, skipWaitingFlag, inbox, controller, controllerchanges>>
windowVars == <<hasServiceWorker, NotificationApi, onLine, readyState, prompts, reloads,
                commands, posted, browserEvents>>
bridgeVars == <<listeners, newWorkers, pwaIn, registering, refreshing, deferredPrompt, lookups>>
pushVars == <<pushManager, subscription, pending, msg>>
codecVars == <<applicationServerKey, keyArray>>
notificationVars == <<pushEvents, notifications, clients, clicks, opened>>
pageVars == <<platformVars, windowVars, bridgeVars, pushVars, codecVars, notificationVars,
              generated, decoded>>
vars == <<workerVars, pageVars>>

\* -------------------------------------------------------------------- fetch
\* String.prototype.startsWith
startsWith(s, p) ==
    /\ Len(p) <= Len(s)
    /\ \A k \in 1..Len(p) : s[k] = p[k]

\* new URL(event.request.url).pathname: requests here are same-origin URLs
\* without query, written as their path.
pathname(u) == u

\* for (var i = 0; i < prefixes.length; i++) if (pathname.startsWith(prefixes[i])) ...
\* the index of the first matching prefix, 0 when the loop ends without one.
RECURSIVE PrefixLoop(_, _, _)
PrefixLoop(prefixes, path, i) ==
    IF i > Len(prefixes) THEN 0
    ELSE IF startsWith(path, prefixes[i]) THEN i
    ELSE PrefixLoop(prefixes, path, i + 1)

\* Mutant: the network-first prefixes are checked before the network-only ones.
StrategyNetworkFirstBeforeOnly(cfg, req) ==
    IF req.mode = "navigate" THEN "navigate"
    ELSE IF PrefixLoop(cfg.networkFirstPrefixes, pathname(req.url), 1) # 0
         THEN "networkFirst"
    ELSE IF PrefixLoop(cfg.networkOnlyPrefixes, pathname(req.url), 1) # 0
         THEN "networkOnly"
    ELSE "cacheFirst"

\* Mutant: the prefixes are checked before the request mode.
StrategyPrefixesBeforeNavigate(cfg, req) ==
    IF PrefixLoop(cfg.networkOnlyPrefixes, pathname(req.url), 1) # 0
         THEN "networkOnly"
    ELSE IF PrefixLoop(cfg.networkFirstPrefixes, pathname(req.url), 1) # 0
         THEN "networkFirst"
    ELSE IF req.mode = "navigate" THEN "navigate"
    ELSE "cacheFirst"

\* The branch of the fetch handler that calls event.respondWith.
Strategy(cfg, req) ==
    IF req.mode = "navigate" THEN "navigate"
    ELSE IF PrefixLoop(cfg.networkOnlyPrefixes, pathname(req.url), 1) # 0
         THEN "networkOnly"
    ELSE IF PrefixLoop(cfg.networkFirstPrefixes, pathname(req.url), 1) # 0
         THEN "networkFirst"
    ELSE "cacheFirst"

\* The synchronous part of the fetch handler: the strategy chosen and the
\* first asynchronous call it makes (caches.match or fetch).
\*   pc      "match" | "fetch" | "catch" | "done": what respondWith's promise waits for
\*   reads   caches.match calls made,  fetches  fetch() calls made
\*   net     what the fetch() settled to (Undefined until it does)
\*   put     the detached caches.open(...).then(cache.put): "none" | "open" | "put" |
\*           "stored" | "rejected" | "dropped"
FetchHandler(id, w, cfg, req) ==
    LET st == Strategy(cfg, req)
        first == IF st \in {"navigate", "cacheFirst"} THEN "match" ELSE "fetch"
    IN  [id |-> id, w |-> w, req |-> req, strategy |-> st, pc |-> first,
         reads |-> IF first = "match" THEN 1 ELSE 0,
         fetches |-> IF first = "fetch" THEN 1 ELSE 0,
         put |-> "none", net |-> Undefined, result |-> Undefined]

\* The request the pending caches.match of event ev looks up.
MatchKey(cfg, ev) ==
    IF ev.strategy = "navigate"
    THEN [method |-> "GET", url |-> cfg.navigationFallback]
    ELSE [method |-> ev.req.method, url |-> ev.req.url]

\* .then(function (cached) { return cached || fetch(event.request); })
CachedOrFetch(ev, cached) ==
    IF IsResponse(cached)
    THEN [ev EXCEPT !.pc = "done", !.result = cached]
    ELSE [ev EXCEPT !.pc = "fetch", !.fetches = @ + 1]

\* What fetch(event.request) settles to for event e.
NetOutcomes(ev) ==
    {Response(ev.req.url, TRUE, FetchOf(ev.id)), Response(ev.req.url, FALSE, FetchOf(ev.id)),
     NetworkError}

\* Mutant: a failed fetch is the answer; the cache is not consulted.
NetworkFirstThenNoCatch(ev, outcome) ==
    [ev EXCEPT !.pc = "done", !.net = outcome, !.result = outcome,
               !.put = IF IsResponse(outcome) /\ outcome.ok THEN "open" ELSE "none"]

\* Mutant: every response is cached, whatever its status.
NetworkFirstThenCacheAny(ev, outcome) ==
    IF IsResponse(outcome)
    THEN [ev EXCEPT !.pc = "done", !.net = outcome, !.result = outcome, !.put = "open"]
    ELSE [ev EXCEPT !.pc = "catch", !.net = outcome, !.reads = @ + 1]

\* The network-first continuation: .then(response => { if (response.ok) {clone,
\* caches.open(...).then(put)}; return response }).catch(() => caches.match(request))
NetworkFirstThen(ev, outcome) ==
    IF IsResponse(outcome)
    THEN [ev EXCEPT !.pc = "done", !.net = outcome, !.result = outcome,
                    !.put = IF outcome.ok THEN "open" ELSE "none"]
    ELSE [ev EXCEPT !.pc = "catch", !.net = outcome, !.reads = @ + 1]

\* Mutant: the network-only branch falls back to the cache like network-first.
FetchThenOnlyAsFirst(ev, outcome) ==
    IF ev.strategy \in {"networkFirst", "networkOnly"} THEN NetworkFirstThen(ev, outcome)
    ELSE [ev EXCEPT !.pc = "done", !.net = outcome, !.result = outcome]

\* Mutant: the cache-first branch stores what it fetched on a miss.
FetchThenCacheOnMiss(ev, outcome) ==
    IF ev.strategy = "networkFirst" THEN NetworkFirstThen(ev, outcome)
    ELSE [ev EXCEPT !.pc = "done", !.net = outcome, !.result = outcome,
                    !.put = IF ev.strategy = "cacheFirst" /\ IsResponse(outcome) /\ outcome.ok
                            THEN "open" ELSE "none"]

\* The continuation of fetch() in the other branches: its settlement is the answer.
FetchThen(ev, outcome) ==
    IF ev.strategy = "networkFirst" THEN NetworkFirstThen(ev, outcome)
    ELSE [ev EXCEPT !.pc = "done", !.net = outcome, !.result = outcome]

\* A fetch event is dispatched to the active worker w.
FetchEvent(w, req) ==
    /\ Len(events) < MaxEvents
    /\ state[w] = "activated"
    /\ events' = Append(events, FetchHandler(Len(events) + 1, w, SW_CONFIG[w], req))
    /\ UNCHANGED <<pageVars, SW_CONFIG, caches, state, installing, activating>>

\* The caches.match of a navigate / cache-first event resolves.
MatchResolves(e) ==
    /\ events[e].pc = "match"
    /\ LET key == MatchKey(SW_CONFIG[events[e].w], events[e])
       IN  events' = [events EXCEPT ![e] =
                        CachedOrFetch(@, CachesMatch(caches, key.method, key.url))]
    /\ UNCHANGED <<pageVars, SW_CONFIG, caches, state, installing, activating>>

\* The fetch() of an event settles.
FetchSettles(e, outcome) ==
    /\ events[e].pc = "fetch"
    /\ outcome \in NetOutcomes(events[e])
    /\ events' = [events EXCEPT ![e] = FetchThen(@, outcome)]
    /\ UNCHANGED <<pageVars, SW_CONFIG, caches, state, installing, activating>>

\* The caches.match(event.request) of the network-first catch resolves.
CatchResolves(e) ==
    /\ events[e].pc = "catch"
    /\ events' = [events EXCEPT ![e].pc = "done",
                   ![e].result = CachesMatch(caches, events[e].req.method, events[e].req.url)]
    /\ UNCHANGED <<pageVars, SW_CONFIG, caches, state, installing, activating>>

\* The detached caches.open(SW_CONFIG.cacheName) of a network-first event resolves.
PutOpens(e) ==
    /\ events[e].put = "open"
    /\ caches' = CachesOpen(caches, SW_CONFIG[events[e].w].cacheName)
    /\ events' = [events EXCEPT ![e].put = "put"]
    /\ UNCHANGED <<pageVars, SW_CONFIG, state, installing, activating>>

\* cache.put(event.request, clone): rejects for a request that is not a GET.
PutWrites(e) ==
    /\ events[e].put = "put"
    /\ IF events[e].req.method = "GET"
       THEN /\ caches' = CachePut(caches, SW_CONFIG[events[e].w].cacheName,
                                  events[e].req.url, events[e].result)
            /\ events' = [events EXCEPT ![e].put = "stored"]
       ELSE /\ caches' = caches
            /\ events' = [events EXCEPT ![e].put = "rejected"]
    /\ UNCHANGED <<pageVars, SW_CONFIG, state, installing, activating>>

\* ------------------------------------------------------------------ install
\* cache.addAll(urls) fetches every URL and stores the responses in one batch,
\* or rejects without storing anything when one of them fails.
RECURSIVE AddAll(_, _, _, _, _)
AddAll(cs, n, urls, i, who) ==
    IF i > Len(urls) THEN cs
    ELSE AddAll(CachePut(cs, n, urls[i], Response(urls[i], TRUE, who)), n, urls, i + 1, who)

SeqRange(q) == {q[i] : i \in 1..Len(q)}

\* Mutant: the promise is not handed to waitUntil; the install does not depend on it.
InstallWithoutWaitUntil(settlement) == "fulfilled"

\* event.waitUntil(p) in the install handler: the install lasts until p settles
\* and succeeds only if p is fulfilled.
InstallWaitUntil(settlement) == settlement

\* The browser starts installing worker version w: the install handler calls
\* caches.open(SW_CONFIG.cacheName).  Version 2 is a later deploy: it is
\* installed once version 1 is settled.
InstallEvent(w) ==
    /\ state[w] = "parsed"
    /\ w = 2 => state[1] \in {"activated", "redundant"}
    /\ state' = [state EXCEPT ![w] = "installing"]
    /\ installing' = [installing EXCEPT ![w].pc = "open"]
    /\ UNCHANGED <<pageVars, SW_CONFIG, caches, activating, events>>

\* Mutant: the install handler clears the other stores before it opens its own.
InstallOpensClears(w) ==
    /\ installing[w].pc = "open"
    /\ caches' = CachesOpen(SelectSeq(caches, LAMBDA c : c.name = SW_CONFIG[w].cacheName),
                            SW_CONFIG[w].cacheName)
    /\ installing' = [installing EXCEPT ![w].pc = "addAll",
                        ![w].attempted = SeqRange(SW_CONFIG[w].precacheUrls)]
    /\ UNCHANGED <<pageVars, SW_CONFIG, state, activating, events>>

\* caches.open resolves; the handler calls cache.addAll(SW_CONFIG.precacheUrls).
InstallOpens(w) ==
    /\ installing[w].pc = "open"
    /\ caches' = CachesOpen(caches, SW_CONFIG[w].cacheName)
    /\ installing' = [installing EXCEPT ![w].pc = "addAll",
                        ![w].attempted = SeqRange(SW_CONFIG[w].precacheUrls)]
    /\ UNCHANGED <<pageVars, SW_CONFIG, state, activating, events>>

\* cache.addAll settles: failed is the set of URLs whose fetch failed.
AddAllSettles(w, failed) ==
    /\ installing[w].pc = "addAll"
    /\ failed \subseteq SeqRange(SW_CONFIG[w].precacheUrls)
    /\ LET settlement == IF failed = {} THEN "fulfilled" ELSE "rejected"
       IN  /\ caches' = IF settlement = "fulfilled"
                        THEN AddAll(caches, SW_CONFIG[w].cacheName,
                                    SW_CONFIG[w].precacheUrls, 1, InstallOf(w))
                        ELSE caches
           /\ installing' = [installing EXCEPT ![w].pc = settlement]
           /\ state' = [state EXCEPT ![w] =
                          IF InstallWaitUntil(settlement) = "fulfilled"
                          THEN "installed" ELSE "redundant"]
    /\ UNCHANGED <<pageVars, SW_CONFIG, activating, events>>

\* ----------------------------------------------------------------- activate
\* Mutant: no filter, every store is deleted.
StaleNamesUnfiltered(names, cfg) == names

\* names.filter(function (n) { return n !== SW_CONFIG.cacheName; })
StaleNames(names, cfg) == {n \in names : n # cfg.cacheName}

\* Mutant: the replaced worker keeps running its detached cache writes.
TerminateKeepsWrites(evs, w) == evs

\* The detached cache writes of a worker are lost when it is terminated.
Terminate(evs, w) ==
    [e \in 1..Len(evs) |->
        IF evs[e].w = w /\ evs[e].put \in {"open", "put"}
        THEN [evs[e] EXCEPT !.put = "dropped"] ELSE evs[e]]

\* The browser activates the waiting worker w: the worker it replaces, whose
\* in-progress requests are over, is terminated and becomes redundant; the
\* activate handler calls caches.keys().
ActivateEvent(w) ==
    /\ state[w] = "installed"
    /\ \A e \in 1..Len(events) : events[e].pc = "done"
    /\ state' = [v \in Workers |->
                    IF v = w THEN "activating"
                    ELSE IF state[v] = "activated" THEN "redundant" ELSE state[v]]
    /\ events' = IF \E v \in Workers : state[v] = "activated"
                 THEN Terminate(events, CHOOSE v \in Workers : state[v] = "activated")
                 ELSE events
    /\ activating' = [activating EXCEPT ![w].pc = "keys"]
    /\ UNCHANGED <<pageVars, SW_CONFIG, caches, installing>>

\* caches.keys() resolves; the handler calls caches.delete for every other name.
KeysResolves(w) ==
    /\ activating[w].pc = "keys"
    /\ activating' = [activating EXCEPT ![w].pc = "deleting",
                        ![w].names = StoreNames(caches),
                        ![w].pending = StaleNames(StoreNames(caches), SW_CONFIG[w])]
    /\ UNCHANGED <<pageVars, SW_CONFIG, caches, state, installing, events>>

\* One of the caches.delete(n) calls resolves.
DeleteResolves(w, n) ==
    /\ activating[w].pc = "deleting"
    /\ n \in activating[w].pending
    /\ caches' = CachesDelete(caches, n)
    /\ activating' = [activating EXCEPT ![w].pending = @ \ {n}]
    /\ UNCHANGED <<pageVars, SW_CONFIG, state, installing, events>>

\* Promise.all resolves: the activate event is over, the worker is activated.
ActivateDone(w) ==
    /\ activating[w].pc = "deleting"
    /\ activating[w].pending = {}
    /\ activating' = [activating EXCEPT ![w].pc = "done"]
    /\ state' = [state EXCEPT ![w] = "activated"]
    /\ UNCHANGED <<pageVars, SW_CONFIG, caches, installing, events>>

\* =============================================================== the bridge
\* init({ ports, swUrl }) of the page-side module, the browser events it
\* listens to and the commands it receives on pwaOut.
MaxCommands == 2        \* messages the application sends on pwaOut
MaxBrowserEvents == 2   \* spontaneous browser events (connectivity, install
                        \* prompt, appinstalled)
MaxMessages == 1        \* messages other scripts of the page post to a worker

\* Successive deploys of the worker script, as the registration sees them.
Versions == {1, 2, 3}
Null == 0

\* A value passed to pwaIn.send.
Inbound(tag) == [tag |-> tag, online |-> FALSE, permission |-> "none",
                 subscription |-> [endpoint |-> Null], error |-> "", url |-> ""]
connectionChanged(online) == [Inbound("connectionChanged") EXCEPT !.online = online]
notificationPermissionChanged(permission) ==
    [Inbound("notificationPermissionChanged") EXCEPT !.permission = permission]

\* event.data of a message posted to a worker: null, or an object whose type
\* field may be missing.
Data(kind, type) == [kind |-> kind, type |-> type]
SKIP_WAITING == Data("object", "SKIP_WAITING")
MessageData == {SKIP_WAITING, Data("object", "PING"), Data("object", "undefined"),
                Data("null", "undefined")}

\* ServiceWorkerRegistration.installing / .waiting / .active
Slot(states) ==
    IF \E v \in Versions : swState[v] \in states
    THEN CHOOSE v \in Versions : swState[v] \in states
    ELSE Null
RegInstalling == Slot({"installing"})
RegWaiting == Slot({"installed"})
RegActive == Slot({"activating", "activated"})
\* getRegistration() resolves with undefined when the scope has no registration.
RegistrationExists == \E v \in Versions : swState[v] \notin {"parsed", "redundant"}

\* ------------------------------------------------------- worker: message
\* Mutant: any message that carries data makes the worker skip waiting.
OnMessageAnyData(data) == data.kind # "null"

\* if (event.data && event.data.type === "SKIP_WAITING") self.skipWaiting();
\* TRUE when the handler calls skipWaiting.
OnMessage(data) == data.kind # "null" /\ data.type = "SKIP_WAITING"

\* Mutant: the worker calls skipWaiting() on its own, in its install handler.
CanActivateSelfPromoted(st, flags, ctrl, v) ==
    /\ st[v] = "installed"
    /\ \A u \in Versions : st[u] # "activating"

\* Try Activate: a waiting worker is activated when the registration has no
\* active worker, when its skip waiting flag is set, or when no page is
\* controlled by the active worker.
CanActivate(st, flags, ctrl, v) ==
    /\ st[v] = "installed"
    /\ \A u \in Versions : st[u] # "activating"
    /\ \/ \A u \in Versions : st[u] # "activated"
       \/ flags[v]
       \/ ctrl = Null

\* ------------------------------------------------- bridge: update flow
\* The statechange listener of a new worker: what it sends when the worker it
\* is attached to has changed to newState.
statechangeAnyController(newState, ctrl) ==
    IF newState = "installed" THEN <<Inbound("updateAvailable")>> ELSE <<>>

statechange(newState, ctrl) ==
    IF newState = "installed" /\ ctrl # Null THEN <<Inbound("updateAvailable")>> ELSE <<>>

\* The statechange events of one step of the registration, handled by the
\* listeners attached so far, from version v on.
RECURSIVE StateChanges(_, _, _, _, _)
StateChanges(before, after, ctrl, attached, v) ==
    IF v \notin Versions THEN <<>>
    ELSE (IF before[v] # after[v] /\ v \in attached
          THEN statechange(after[v], ctrl) ELSE <<>>)
         \o StateChanges(before, after, ctrl, attached, v + 1)

\* Mutant: the listener sets the flag and forgets to reload.
controllerchangeNoReload(flag) == [refreshing |-> TRUE, reload |-> FALSE]

\* Mutant: no guard flag, every controllerchange reloads.
controllerchangeUnguarded(flag) == [refreshing |-> TRUE, reload |-> TRUE]

\* The controllerchange listener: the flag after it ran and whether it called
\* location.reload.
controllerchange(flag) == [refreshing |-> TRUE, reload |-> ~flag]

\* Mutant: the message goes to the active worker.
acceptUpdateToActive(exists, waiting, active) ==
    IF exists /\ active # Null THEN {active} ELSE {}

\* getRegistration().then: the workers that are posted SKIP_WAITING.
acceptUpdate(exists, waiting, active) ==
    IF exists /\ waiting # Null THEN {waiting} ELSE {}

\* Mutant: the waiting worker is not looked at when registration resolves.
registeredIgnoresWaiting(waiting) == <<>>

\* register().then: what is sent as soon as the registration is known.
registered(waiting) == IF waiting # Null THEN <<Inbound("updateAvailable")>> ELSE <<>>

\* Mutant: init forgets to report the permission.
sendNotificationPermissionNever(api) == <<>>

\* sendNotificationPermission(): what it sends.
sendNotificationPermission(api) ==
    <<notificationPermissionChanged(IF api = "absent" THEN "unsupported" ELSE api)>>

\* ---------------------------------------------- bridge: install prompt
\* Mutant: the event is announced but not retained.
beforeinstallpromptNotRetained(e, dp) ==
    [defaultPrevented |-> TRUE, deferredPrompt |-> dp, send |-> <<Inbound("installAvailable")>>]

\* The beforeinstallprompt listener, for the event e: e.preventDefault(), the
\* new value of deferredPrompt and what is sent.
beforeinstallprompt(e, dp) ==
    [defaultPrevented |-> TRUE, deferredPrompt |-> e, send |-> <<Inbound("installAvailable")>>]

\* Mutant: appinstalled is not reported after an installAvailable.
appinstalledCoalesced(sent) ==
    IF sent # <<>> /\ sent[Len(sent)].tag = "installAvailable" THEN <<>>
    ELSE <<Inbound("installed")>>

\* The appinstalled listener: what it sends, given what was sent before.
appinstalled(sent) == <<Inbound("installed")>>

\* case "requestInstall": the events on which prompt() is called.
requestInstall(dp) == IF dp # Null THEN {dp} ELSE {}

\* deferredPrompt.userChoice.then(function () { deferredPrompt = null; })
userChoiceThen(dp) == Null

\* --------------------------------------------------- permission and push
\* The promises of this part of the bridge, by the call that made them; the
\* getSubscription of the registration callback is kept apart from the one of
\* unsubscribePush.
Operations == {"requestPermission", "registered.getSubscription", "subscribe",
               "getSubscription", "unsubscribe"}
NonePending == [op \in Operations |-> 0]

\* A message on pwaOut: { tag, vapidPublicKey }.
Msg(tag, vapidPublicKey) == [tag |-> tag, vapidPublicKey |-> vapidPublicKey]
NoMsg == Msg("", <<>>)

\* The subscription an earlier visit left behind, and the one subscribe()
\* creates when there is none.
ExistingSubscription == 1
NewSubscription == 2

\* sub.toJSON()
toJSON(sub) == [endpoint |-> sub]
pushSubscription(sub) == [Inbound("pushSubscription") EXCEPT !.subscription = toJSON(sub)]
pushSubscriptionError(error) == [Inbound("pushSubscriptionError") EXCEPT !.error = error]
notificationClicked(url) == [Inbound("notificationClicked") EXCEPT !.url = url]

\* What a rejected subscribe() hands to the catch callback: an error with a
\* message, an error whose message is empty, or nothing.
Err(kind, message) == [kind |-> kind, message |-> message]
Errors == {Err("error", "Registration failed"), Err("error", ""), Err("undefined", "")}
\* String(err) of an error whose message is empty.
String(err) == "Error"

\* The base64 alphabet of atob, and the characters a key may be written with.
Base64 ==
    <<"A", "B", "C", "D", "E", "F", "G", "H", "I", "J", "K", "L", "M", "N", "O", "P",
      "Q", "R", "S", "T", "U", "V", "W", "X", "Y", "Z", "a", "b", "c", "d", "e", "f",
      "g", "h", "i", "j", "k", "l", "m", "n", "o", "p", "q", "r", "s", "t", "u", "v",
      "w", "x", "y", "z", "0", "1", "2", "3", "4", "5", "6", "7", "8", "9", "+", "/">>
Chars(str) == {str[i] : i \in 1..Len(str)}
\* The 6-bit value of a character of the alphabet.
Sextet(c) == (CHOOSE i \in 1..64 : Base64[i] = c) - 1

\* "=".repeat(n)
repeat(c, n) == [i \in 1..n |-> c]
\* str.replace(/-/g, "+").replace(/_/g, "/")
replace(str) == [i \in 1..Len(str) |->
                   IF str[i] = "-" THEN "+" ELSE IF str[i] = "_" THEN "/" ELSE str[i]]

\* window.atob: one or two trailing "=" of a string whose length is a multiple
\* of four are removed; what is left must be written in the alphabet and must
\* not have a length of 1 modulo 4, otherwise InvalidCharacterError is thrown;
\* every four characters give three bytes, a last group of two or three
\* characters gives one or two bytes.
Thrown == [throws |-> TRUE, bytes |-> <<>>]
Returned(bytes) == [throws |-> FALSE, bytes |-> bytes]
StripPadding(str) ==
    IF Len(str) > 0 /\ Len(str) % 4 = 0 /\ str[Len(str)] = "="
    THEN IF str[Len(str) - 1] = "=" THEN SubSeq(str, 1, Len(str) - 2)
         ELSE SubSeq(str, 1, Len(str) - 1)
    ELSE str
atob(str) ==
    LET data == StripPadding(str)
        n == (Len(data) * 6) \div 8
        at(i) == IF i <= Len(data) THEN Sextet(data[i]) ELSE 0
        byte(j) ==
            LET g == 4 * ((j - 1) \div 3) IN
            CASE (j - 1) % 3 = 0 -> at(g + 1) * 4 + at(g + 2) \div 16
              [] (j - 1) % 3 = 1 -> (at(g + 2) % 16) * 16 + at(g + 3) \div 4
              [] (j - 1) % 3 = 2 -> (at(g + 3) % 4) * 64 + at(g + 4)
    IN IF Len(data) % 4 = 1 \/ ~(Chars(data) \subseteq Chars(Base64))
       THEN Thrown
       ELSE Returned([j \in 1..n |-> byte(j)])

\* Mutant: the two url characters are not replaced.
urlBase64ToUint8ArrayNoReplace(key) == atob(key \o repeat("=", (4 - (Len(key) % 4)) % 4))
\* The decoding of msg.vapidPublicKey: padding restored, the two url characters
\* replaced, atob, and the character codes copied into a Uint8Array.
urlBase64ToUint8Array(key) ==
    atob(replace(key \o repeat("=", (4 - (Len(key) % 4)) % 4)))

\* swRegistration is set by the then-callback of register().
swRegistration(promise) == promise = "fulfilled"

\* Mutant: the request is made without testing for the Notification API.
requestNotificationPermissionAlwaysAsks(api) ==
    [send |-> <<>>, request |-> 1]
\* case "requestNotificationPermission": the message sent at once and the
\* number of Notification.requestPermission() calls.
requestNotificationPermission(api) ==
    IF api = "absent"
    THEN [send |-> <<notificationPermissionChanged("unsupported")>>, request |-> 0]
    ELSE [send |-> <<>>, request |-> 1]

\* Notification.requestPermission().then(...)
requestPermissionThen(result) == <<notificationPermissionChanged(result)>>

\* Mutant: the registration and its pushManager are not tested.
subscribePushUnguarded(reg, pm, key) ==
    IF urlBase64ToUint8Array(key).throws THEN "throws" ELSE "subscribe"
\* case "subscribePush": nothing without a registration that has a pushManager;
\* otherwise the key is decoded, which may throw, and subscribe() is called.
subscribePush(reg, pm, key) ==
    IF ~reg \/ ~pm THEN "break"
    ELSE IF urlBase64ToUint8Array(key).throws THEN "throws"
    ELSE "subscribe"

\* subscribe().then(...) and .catch(...)
subscribeThen(sub) == <<pushSubscription(sub)>>
subscribeCatch(err) ==
    <<pushSubscriptionError(IF err.kind = "undefined" THEN "Push subscription failed"
                            ELSE IF err.message # "" THEN err.message
                            ELSE String(err))>>

\* Mutant: a message is sent whether or not a subscription was found.
registeredGetSubscriptionThenAlways(sub) == <<pushSubscription(sub)>>
\* reg.pushManager.getSubscription().then(...) of the registration callback
registeredGetSubscriptionThen(sub) ==
    IF sub # Null THEN <<pushSubscription(sub)>> ELSE <<>>

\* case "unsubscribePush": the number of getSubscription() calls.
unsubscribePush(reg, pm) == IF reg /\ pm THEN 1 ELSE 0

\* Mutant: unsubscribe is reported although no subscription was found.
getSubscriptionThenAlways(sub) == 1
\* getSubscription().then(...) of unsubscribePush: the number of
\* sub.unsubscribe() calls.
getSubscriptionThen(sub) == IF sub # Null THEN 1 ELSE 0

\* sub.unsubscribe().then(...)
unsubscribeThen == <<Inbound("pushUnsubscribed")>>

\* ------------------------------------- worker: push and notificationclick
MaxPushes == 1          \* push events dispatched to the worker
MaxBuilds == 2          \* calls of generateSW by the build script

\* A JavaScript value as the push handler reads it: its kind and, for an
\* object, the fields the handler looks at; a field that is missing and a field
\* that holds "" are both falsy and both written "".  data is a value of its
\* own, of which only url is read.  A url that is a number is written as its
\* digits; no url that is a string consists of digits.
Numbers == {"7"}
typeof(x) == IF x \in Numbers THEN "number" ELSE "string"
DataValue(kind, url) == [kind |-> kind, url |-> url]
NoData == DataValue("undefined", "")
Value(kind, title, body, data) ==
    [kind |-> kind, title |-> title, body |-> body, icon |-> "", badge |-> "",
     tag |-> "", data |-> data]
EmptyObject == Value("object", "", "", NoData)

\* The payload texts a push service delivers.
PayloadTexts ==
    {"{\"title\":\"Hi\",\"body\":\"there\",\"data\":{\"url\":\"/a\"}}",
     "{\"title\":\"Hi\",\"data\":{}}",
     "{\"title\":\"Hi\",\"data\":{\"url\":7}}",
     "{\"title\":\"Hi\",\"data\":\"/a\"}",
     "{\"body\":\"there\"}",
     "\"Hi\"",
     "null",
     "Hi",
     ""}
\* event.data: null, or a PushMessageData holding a text.
PushData == {[present |-> FALSE, text |-> ""]}
            \cup {[present |-> TRUE, text |-> t] : t \in PayloadTexts}

\* event.data.json(): JSON.parse of the text; it throws on a text that is not
\* JSON.
SyntaxError == Value("throws", "", "", NoData)
json(text) ==
    CASE text = "{\"title\":\"Hi\",\"body\":\"there\",\"data\":{\"url\":\"/a\"}}" ->
            Value("object", "Hi", "there", DataValue("object", "/a"))
      [] text = "{\"title\":\"Hi\",\"data\":{}}" ->
            Value("object", "Hi", "", DataValue("object", ""))
      [] text = "{\"title\":\"Hi\",\"data\":{\"url\":7}}" ->
            Value("object", "Hi", "", DataValue("object", "7"))
      [] text = "{\"title\":\"Hi\",\"data\":\"/a\"}" ->
            Value("object", "Hi", "", DataValue("string", ""))
      [] text = "{\"body\":\"there\"}" -> Value("object", "", "there", NoData)
      [] text = "\"Hi\"" -> Value("string", "", "", NoData)
      [] text = "null" -> Value("null", "", "", NoData)
      [] OTHER -> SyntaxError

\* x || d
Or(x, d) == IF x # "" THEN x ELSE d

\* The push listener: the arguments of showNotification, or the exception
\* that leaves the listener when a property of null is read.
push(data) ==
    LET payload == IF ~data.present THEN EmptyObject
                   ELSE IF json(data.text) # SyntaxError THEN json(data.text)
                   ELSE Value("object", Or(data.text, "New notification"), "", NoData)
    IN IF payload.kind = "null"
       THEN [throws |-> TRUE, title |-> "", options |-> EmptyObject]
       ELSE [throws |-> FALSE,
             title |-> Or(payload.title, "New notification"),
             options |-> Value("object", "", payload.body,
                               IF payload.data.kind # "undefined" THEN payload.data
                               ELSE DataValue("object", ""))]

\* A window client: its url, whether it is the page whose bridge is followed
\* here, whether the worker focused it, the messages posted to it and not yet
\* delivered, and the urls its message listener has received.
Url(origin, path) == [origin |-> origin, pathname |-> path]
Origin == "https://app.example"
Window(url, page) ==
    [url |-> url, page |-> page, focused |-> FALSE, messages |-> <<>>, received |-> <<>>]
\* A window the application opened on about:blank: it is a client of the
\* origin, and new URL("about:blank").origin is "null".
Blank == Window(Url("null", "about:blank"), FALSE)
Page == Window(Url(Origin, "/"), TRUE)
Other == Window(Url(Origin, "/a"), FALSE)

\* (event.notification.data && event.notification.data.url) || "/"
targetUrl(data) == IF data.kind = "undefined" THEN "/" ELSE Or(data.url, "/")

\* Mutant: a window is opened whether or not a client was focused.
notificationclickBoth(windowClients, url) ==
    LET same == {i \in 1..Len(windowClients) : windowClients[i].url.origin = Origin}
    IN [focus |-> IF same # {} THEN CHOOSE i \in same : \A j \in same : i <= j ELSE 0,
        openWindow |-> <<url>>]

\* The then-callback of clients.matchAll: the client whose focus() is called
\* (0: none) and the url passed to clients.openWindow, if it is called.
notificationclick(windowClients, url) ==
    LET same == {i \in 1..Len(windowClients) : windowClients[i].url.origin = Origin}
    IN IF same # {}
       THEN [focus |-> CHOOSE i \in same : \A j \in same : i <= j, openWindow |-> <<>>]
       ELSE [focus |-> 0, openWindow |-> <<url>>]

\* The bridge's listener of the messages the worker posts to the page.
serviceWorkerMessage(data) ==
    IF data.tag = "notificationClicked" THEN <<notificationClicked(Or(data.url, "/"))>>
    ELSE <<>>

\* ---------------------------------------------------------------- Pwa.elm
MaxDecodes == 1         \* values handed to decodeEvent

\* A JSON value as a decoder sees it: its type and its text.
Json(type, text) == [type |-> type, text |-> text]
Ok(event, payload) == [ok |-> TRUE, event |-> event, payload |-> payload]
DecodeError == [ok |-> FALSE, event |-> "", payload |-> Json("null", "null")]

\* Decode.field name decoder, for the primitive decoders of the module:
\* Decode.bool, Decode.string, and Decode.value which takes any value.
Field(value, name, type) ==
    IF name \in DOMAIN value /\ type \in {"value", value[name].type}
    THEN Ok("", value[name]) ELSE DecodeError
\* |> Decode.map Variant
Map(event, result) == IF result.ok THEN Ok(event, result.payload) ELSE result

\* Mutant: an unknown permission string is taken for Default.
notificationPermissionDecoderLenient(result) ==
    IF ~result.ok THEN result
    ELSE CASE result.payload.text = "granted" -> Ok("", Json("NotificationPermission", "Granted"))
           [] result.payload.text = "denied" -> Ok("", Json("NotificationPermission", "Denied"))
           [] result.payload.text = "unsupported" ->
                 Ok("", Json("NotificationPermission", "Unsupported"))
           [] OTHER -> Ok("", Json("NotificationPermission", "Default"))

\* notificationPermissionDecoder, applied to the outcome of Decode.string.
notificationPermissionDecoder(result) ==
    IF ~result.ok THEN result
    ELSE CASE result.payload.text = "granted" -> Ok("", Json("NotificationPermission", "Granted"))
           [] result.payload.text = "denied" -> Ok("", Json("NotificationPermission", "Denied"))
           [] result.payload.text = "default" -> Ok("", Json("NotificationPermission", "Default"))
           [] result.payload.text = "unsupported" ->
                 Ok("", Json("NotificationPermission", "Unsupported"))
           [] OTHER -> DecodeError

\* eventDecoder: the tag is read first, then the field of the tag's variant.
decodeEvent(value) ==
    LET tag == Field(value, "tag", "string")
        Unit == Json("unit", "")
    IN IF ~tag.ok THEN DecodeError
       ELSE CASE tag.payload.text = "connectionChanged" ->
                    Map("ConnectionChanged", Field(value, "online", "bool"))
              [] tag.payload.text = "updateAvailable" -> Ok("UpdateAvailable", Unit)
              [] tag.payload.text = "installAvailable" -> Ok("InstallAvailable", Unit)
              [] tag.payload.text = "installed" -> Ok("Installed", Unit)
              [] tag.payload.text = "installedInBrowser" -> Ok("InstalledInBrowser", Unit)
              [] tag.payload.text = "notificationPermissionChanged" ->
                    Map("NotificationPermissionChanged",
                        notificationPermissionDecoder(Field(value, "permission", "string")))
              [] tag.payload.text = "pushSubscription" ->
                    Map("PushSubscription", Field(value, "subscription", "value"))
              [] tag.payload.text = "pushSubscriptionError" ->
                    Map("PushSubscriptionError", Field(value, "error", "string"))
              [] tag.payload.text = "pushUnsubscribed" -> Ok("PushUnsubscribed", Unit)
              [] tag.payload.text = "notificationClicked" ->
                    Map("NotificationClicked", Field(value, "url", "string"))
              [] OTHER -> DecodeError

\* ----------------------------------------------------------------- actions
fixedVars == <<workerVars, hasServiceWorker, NotificationApi, pushVars, codecVars,
               notificationVars, generated, decoded>>

\* init() runs: it reports the notification permission and attaches the window
\* listeners and the pwaOut subscription.
init ==
    /\ "pwaOut" \notin listeners
    /\ pwaIn' = pwaIn \o sendNotificationPermission(NotificationApi)
    /\ listeners' = listeners \cup {"online", "offline", "beforeinstallprompt",
                                    "appinstalled", "pwaOut"}
                              \cup (IF hasServiceWorker THEN {"load"} ELSE {})
    /\ UNCHANGED <<fixedVars, platformVars, onLine, readyState, prompts, reloads,
                   commands, posted, browserEvents, newWorkers, registering, refreshing,
                   deferredPrompt, lookups>>

\* The window's load event: the listener calls register(serviceWorkerUrl) and
\* attaches the controllerchange and message listeners.
Load ==
    /\ readyState = "loading"
    /\ readyState' = "complete"
    /\ IF "load" \in listeners
       THEN /\ registering' = "pending"
            /\ listeners' = listeners \cup {"controllerchange", "message"}
       ELSE UNCHANGED <<registering, listeners>>
    /\ UNCHANGED <<fixedVars, platformVars, onLine, prompts, reloads, commands, posted,
                   browserEvents, newWorkers, pwaIn, refreshing, deferredPrompt, lookups>>

\* register() settles; fulfilled, its then-callback runs.
RegisterSettles(ok) ==
    /\ registering = "pending"
    /\ IF ok
       THEN /\ registering' = "fulfilled"
            /\ pwaIn' = pwaIn \o registered(RegWaiting)
            /\ listeners' = listeners \cup {"updatefound", "visibilitychange"}
            /\ pending' = [pending EXCEPT !["registered.getSubscription"] =
                                             @ + (IF pushManager THEN 1 ELSE 0)]
       ELSE /\ registering' = "rejected"
            /\ UNCHANGED <<pwaIn, listeners, pending>>
    /\ UNCHANGED <<workerVars, hasServiceWorker, NotificationApi, pushManager, subscription,
                   msg, codecVars, notificationVars, generated, decoded, platformVars, onLine,
                   readyState,
                   prompts, reloads, commands, posted, browserEvents, newWorkers,
                   refreshing, deferredPrompt, lookups>>

\* The browser has fetched a new version v of the worker script and starts
\* installing it: updatefound fires at the registration, whose listener (if
\* attached) attaches a statechange listener to reg.installing.
UpdateFound(v) ==
    /\ hasServiceWorker
    /\ swState[v] = "parsed"
    /\ \A u \in Versions : u < v => swState[u] \notin {"parsed", "installing"}
    /\ RegistrationExists \/ registering = "fulfilled"
    /\ swState' = [swState EXCEPT ![v] = "installing"]
    /\ newWorkers' = IF "updatefound" \in listeners THEN newWorkers \cup {v} ELSE newWorkers
    /\ UNCHANGED <<fixedVars, skipWaitingFlag, inbox, controller, controllerchanges,
                   onLine, readyState, prompts, reloads, commands, posted, browserEvents,
                   listeners, pwaIn, registering, refreshing, deferredPrompt, lookups>>

\* The install of version v is over: it becomes the waiting worker (replacing
\* an earlier waiting one) or redundant.
InstallSettles(v, ok) ==
    /\ swState[v] = "installing"
    /\ LET after == [u \in Versions |->
                        IF u = v THEN (IF ok THEN "installed" ELSE "redundant")
                        ELSE IF ok /\ swState[u] = "installed" THEN "redundant"
                        ELSE swState[u]]
       IN  /\ swState' = after
           /\ pwaIn' = pwaIn \o StateChanges(swState, after, controller, newWorkers, 1)
    /\ UNCHANGED <<fixedVars, skipWaitingFlag, inbox, controller, controllerchanges,
                   onLine, readyState, prompts, reloads, commands, posted, browserEvents,
                   listeners, newWorkers, registering, refreshing, deferredPrompt,
                   lookups>>

\* The browser activates the waiting version v: it replaces the active worker,
\* and a page controlled by the registration gets it as controller, with a
\* controllerchange event.
Activate(v) ==
    /\ CanActivate(swState, skipWaitingFlag, controller, v)
    /\ LET after == [u \in Versions |->
                        IF u = v THEN "activating"
                        ELSE IF swState[u] = "activated" THEN "redundant"
                        ELSE swState[u]]
           fired == controller # Null
           heard == fired /\ "controllerchange" \in listeners
       IN  /\ swState' = after
           /\ controller' = IF fired THEN v ELSE Null
           /\ controllerchanges' = controllerchanges + (IF heard THEN 1 ELSE 0)
           /\ refreshing' = IF heard THEN controllerchange(refreshing).refreshing
                            ELSE refreshing
           /\ reloads' = reloads +
                 (IF heard /\ controllerchange(refreshing).reload THEN 1 ELSE 0)
           /\ pwaIn' = pwaIn \o StateChanges(swState, after, controller', newWorkers, 1)
    /\ UNCHANGED <<fixedVars, skipWaitingFlag, inbox, onLine, readyState, prompts,
                   commands, posted, browserEvents, listeners, newWorkers, registering,
                   deferredPrompt, lookups>>

\* The activate event of version v is over.
Activated(v) ==
    /\ swState[v] = "activating"
    /\ LET after == [swState EXCEPT ![v] = "activated"]
       IN  /\ swState' = after
           /\ pwaIn' = pwaIn \o StateChanges(swState, after, controller, newWorkers, 1)
    /\ UNCHANGED <<fixedVars, skipWaitingFlag, inbox, controller, controllerchanges,
                   onLine, readyState, prompts, reloads, commands, posted, browserEvents,
                   listeners, newWorkers, registering, refreshing, deferredPrompt,
                   lookups>>

\* Version v handles the oldest message posted to it.
Message(v) ==
    /\ inbox[v] # <<>>
    /\ swState[v] \notin {"parsed", "redundant"}
    /\ inbox' = [inbox EXCEPT ![v] = Tail(@)]
    /\ skipWaitingFlag' = [skipWaitingFlag EXCEPT ![v] = @ \/ OnMessage(Head(inbox[v]))]
    /\ UNCHANGED <<fixedVars, swState, controller, controllerchanges, windowVars,
                   bridgeVars>>

\* Another script of the page posts a message to version v.
PostMessage(v, data) ==
    /\ posted < MaxMessages
    /\ swState[v] \notin {"parsed", "redundant"}
    /\ posted' = posted + 1
    /\ inbox' = [inbox EXCEPT ![v] = Append(@, data)]
    /\ UNCHANGED <<fixedVars, swState, skipWaitingFlag, controller, controllerchanges,
                   onLine, readyState, prompts, reloads, commands, browserEvents,
                   bridgeVars>>

\* The browser goes online or offline; sendConnectionStatus runs if attached.
Connectivity(online) ==
    /\ browserEvents < MaxBrowserEvents
    /\ online # onLine
    /\ browserEvents' = browserEvents + 1
    /\ onLine' = online
    /\ pwaIn' = IF (IF online THEN "online" ELSE "offline") \in listeners
                THEN Append(pwaIn, connectionChanged(online)) ELSE pwaIn
    /\ UNCHANGED <<fixedVars, platformVars, readyState, prompts, reloads, commands,
                   posted, listeners, newWorkers, registering, refreshing,
                   deferredPrompt, lookups>>

\* The browser fires beforeinstallprompt.
BeforeInstallPrompt ==
    /\ browserEvents < MaxBrowserEvents
    /\ browserEvents' = browserEvents + 1
    /\ LET e == Len(prompts) + 1
           heard == "beforeinstallprompt" \in listeners
           h == beforeinstallprompt(e, deferredPrompt)
       IN  /\ prompts' = Append(prompts,
                            [defaultPrevented |-> heard /\ h.defaultPrevented,
                             prompted |-> 0, userChoice |-> "pending"])
           /\ deferredPrompt' = IF heard THEN h.deferredPrompt ELSE deferredPrompt
           /\ pwaIn' = IF heard THEN pwaIn \o h.send ELSE pwaIn
    /\ UNCHANGED <<fixedVars, platformVars, onLine, readyState, reloads, commands,
                   posted, listeners, newWorkers, registering, refreshing, lookups>>

\* The browser fires appinstalled.
AppInstalled ==
    /\ browserEvents < MaxBrowserEvents
    /\ browserEvents' = browserEvents + 1
    /\ pwaIn' = IF "appinstalled" \in listeners THEN pwaIn \o appinstalled(pwaIn) ELSE pwaIn
    /\ UNCHANGED <<fixedVars, platformVars, onLine, readyState, prompts, reloads,
                   commands, posted, listeners, newWorkers, registering, refreshing,
                   deferredPrompt, lookups>>

\* The application sends a message on pwaOut; the subscriber dispatches on tag.
Command(tag) ==
    /\ "pwaOut" \in listeners
    /\ commands < MaxCommands
    /\ commands' = commands + 1
    /\ lookups' = lookups + (IF tag = "acceptUpdate" /\ hasServiceWorker THEN 1 ELSE 0)
    /\ prompts' = IF tag = "requestInstall"
                  THEN [e \in DOMAIN prompts |->
                          IF e \in requestInstall(deferredPrompt)
                          THEN [prompts[e] EXCEPT !.prompted = @ + 1] ELSE prompts[e]]
                  ELSE prompts
    /\ UNCHANGED <<fixedVars, platformVars, onLine, readyState, reloads, posted,
                   browserEvents, listeners, newWorkers, pwaIn, registering, refreshing,
                   deferredPrompt>>

\* A getRegistration() of acceptUpdate resolves; its then-callback runs.
GetRegistrationResolves ==
    /\ lookups > 0
    /\ lookups' = lookups - 1
    /\ inbox' = [v \in Versions |->
                    IF v \in acceptUpdate(RegistrationExists, RegWaiting, RegActive)
                    THEN Append(inbox[v], SKIP_WAITING) ELSE inbox[v]]
    /\ UNCHANGED <<fixedVars, swState, skipWaitingFlag, controller, controllerchanges,
                   windowVars, listeners, newWorkers, pwaIn, registering, refreshing,
                   deferredPrompt>>

\* The user answers the install dialog of event e: userChoice resolves and the
\* then-callbacks attached by requestInstall run.
UserChoice(e, outcome) ==
    /\ e \in DOMAIN prompts
    /\ prompts[e].prompted > 0
    /\ prompts[e].userChoice = "pending"
    /\ prompts' = [prompts EXCEPT ![e].userChoice = outcome]
    /\ deferredPrompt' = userChoiceThen(deferredPrompt)
    /\ UNCHANGED <<fixedVars, platformVars, onLine, readyState, reloads, commands,
                   posted, browserEvents, listeners, newWorkers, pwaIn, registering,
                   refreshing, lookups>>

\* The application sends one of the permission and push messages on pwaOut;
\* the subscriber dispatches on msg.tag.  An exception thrown while the key is
\* decoded leaves the subscriber before subscribe() is called.
PushCommand(m) ==
    /\ "pwaOut" \in listeners
    /\ commands < MaxCommands
    /\ commands' = commands + 1
    /\ msg' = m
    /\ CASE m.tag = "requestNotificationPermission" ->
              LET r == requestNotificationPermission(NotificationApi) IN
              /\ pwaIn' = pwaIn \o r.send
              /\ pending' = [pending EXCEPT !["requestPermission"] = @ + r.request]
              /\ UNCHANGED keyArray
         [] m.tag = "subscribePush" ->
              LET r == subscribePush(swRegistration(registering), pushManager,
                                     m.vapidPublicKey) IN
              /\ pending' = [pending EXCEPT
                               !["subscribe"] = @ + (IF r = "subscribe" THEN 1 ELSE 0)]
              /\ keyArray' = IF r = "subscribe"
                             THEN urlBase64ToUint8Array(m.vapidPublicKey).bytes
                             ELSE keyArray
              /\ UNCHANGED pwaIn
         [] m.tag = "unsubscribePush" ->
              /\ pending' = [pending EXCEPT
                               !["getSubscription"] =
                                  @ + unsubscribePush(swRegistration(registering),
                                                      pushManager)]
              /\ UNCHANGED <<pwaIn, keyArray>>
    /\ UNCHANGED <<workerVars, platformVars, hasServiceWorker, NotificationApi, onLine,
                   readyState, prompts, reloads, posted, browserEvents, listeners,
                   newWorkers, registering, refreshing, deferredPrompt, lookups,
                   pushManager, subscription, applicationServerKey, notificationVars,
                   generated, decoded>>

\* A promise of the push slice settles and its callbacks run; the frame of
\* every such step.
Settles(op) ==
    /\ pending[op] > 0
    /\ UNCHANGED <<workerVars, platformVars, hasServiceWorker, onLine, readyState, prompts,
                   reloads, commands, posted, browserEvents, listeners, newWorkers,
                   registering, refreshing, deferredPrompt, lookups, pushManager, msg,
                   codecVars, notificationVars, generated, decoded>>

\* The user answers the permission dialog, or the browser answers for them
\* when the permission was already decided.
PermissionResolves(result) ==
    /\ Settles("requestPermission")
    /\ NotificationApi \in {"default", result}
    /\ NotificationApi' = result
    /\ pending' = [pending EXCEPT !["requestPermission"] = @ - 1]
    /\ pwaIn' = pwaIn \o requestPermissionThen(result)
    /\ UNCHANGED subscription

\* The getSubscription() of the registration callback resolves.
RegisteredGetSubscriptionResolves ==
    /\ Settles("registered.getSubscription")
    /\ pending' = [pending EXCEPT !["registered.getSubscription"] = @ - 1]
    /\ pwaIn' = pwaIn \o registeredGetSubscriptionThen(subscription)
    /\ UNCHANGED <<NotificationApi, subscription>>

\* subscribe() is fulfilled with the registration's subscription, created if
\* there was none (the user granting the permission if it was undecided).
SubscribeResolves ==
    /\ Settles("subscribe")
    /\ NotificationApi \in {"default", "granted"}
    /\ NotificationApi' = "granted"
    /\ subscription' = IF subscription = Null THEN NewSubscription ELSE subscription
    /\ pending' = [pending EXCEPT !["subscribe"] = @ - 1]
    /\ pwaIn' = pwaIn \o subscribeThen(subscription')

\* subscribe() is rejected: permission denied, push service unreachable, ...
SubscribeRejects(err) ==
    /\ Settles("subscribe")
    /\ pending' = [pending EXCEPT !["subscribe"] = @ - 1]
    /\ pwaIn' = pwaIn \o subscribeCatch(err)
    /\ UNCHANGED <<NotificationApi, subscription>>

\* The getSubscription() of unsubscribePush resolves.
GetSubscriptionResolves ==
    /\ Settles("getSubscription")
    /\ pending' = [pending EXCEPT !["getSubscription"] = @ - 1,
                                  !["unsubscribe"] = @ + getSubscriptionThen(subscription)]
    /\ UNCHANGED <<NotificationApi, subscription, pwaIn>>

\* sub.unsubscribe() settles: fulfilled (with true, or with false when the
\* subscription was already gone), or rejected.
UnsubscribeSettles(ok) ==
    /\ Settles("unsubscribe")
    /\ pending' = [pending EXCEPT !["unsubscribe"] = @ - 1]
    /\ IF ok
       THEN /\ subscription' = Null
            /\ pwaIn' = pwaIn \o unsubscribeThen
       ELSE UNCHANGED <<subscription, pwaIn>>
    /\ UNCHANGED NotificationApi

\* ---------------------------------------------------- notification actions
notificationFrame ==
    UNCHANGED <<workerVars, platformVars, windowVars, listeners, newWorkers, registering,
                refreshing, deferredPrompt, lookups, pushVars, codecVars, generated,
                decoded>>

\* The push service delivers a message: the worker's push listener runs.
PushEvent(data) ==
    /\ Len(pushEvents) < MaxPushes
    /\ pushEvents' = Append(pushEvents, data)
    /\ notifications' = IF push(data).throws THEN notifications
                        ELSE Append(notifications,
                                    [title |-> push(data).title,
                                     options |-> push(data).options,
                                     closed |-> FALSE])
    /\ UNCHANGED <<pwaIn, clients, clicks, opened>>
    /\ notificationFrame

\* The user clicks notification n: the notificationclick listener closes it,
\* takes the url and calls clients.matchAll.
NotificationClick(n) ==
    /\ n \in DOMAIN notifications
    /\ ~notifications[n].closed
    /\ notifications' = [notifications EXCEPT ![n].closed = TRUE]
    /\ clicks' = Append(clicks, [notification |-> n,
                                 url |-> targetUrl(notifications[n].options.data),
                                 pc |-> "matchAll", client |-> 0])
    /\ UNCHANGED <<pushEvents, pwaIn, clients, opened>>
    /\ notificationFrame

\* matchAll resolves with the window clients: focus() is called on one of
\* them, or openWindow is called, which adds a window showing the url.
MatchAllResolves(c) ==
    /\ c \in DOMAIN clicks
    /\ clicks[c].pc = "matchAll"
    /\ LET r == notificationclick(clients, clicks[c].url) IN
       /\ clicks' = [clicks EXCEPT ![c].pc = IF r.focus # 0 THEN "focus" ELSE "done",
                                   ![c].client = r.focus]
       /\ opened' = opened \o r.openWindow
       /\ clients' = clients \o [i \in 1..Len(r.openWindow) |->
                                   Window(Url(Origin, r.openWindow[i]), FALSE)]
    /\ UNCHANGED <<pushEvents, notifications, pwaIn>>
    /\ notificationFrame

\* client.focus() settles: fulfilled, the then-callback posts the message to
\* the focused client; rejected (the window is gone, or focusing is no longer
\* allowed), nothing is posted.
FocusSettles(c, ok) ==
    /\ c \in DOMAIN clicks
    /\ clicks[c].pc = "focus"
    /\ clicks' = [clicks EXCEPT ![c].pc = "done"]
    /\ clients' = IF ok
                  THEN [clients EXCEPT
                          ![clicks[c].client].focused = TRUE,
                          ![clicks[c].client].messages =
                              Append(@, [tag |-> "notificationClicked",
                                         url |-> clicks[c].url])]
                  ELSE clients
    /\ UNCHANGED <<pushEvents, notifications, pwaIn, opened>>
    /\ notificationFrame

\* A message posted by the worker reaches window i.  The page followed here
\* hears it only once its load listener has attached the message listener;
\* the other windows of the application are taken to be listening.
ClientMessage(i) ==
    /\ i \in DOMAIN clients
    /\ clients[i].messages # <<>>
    /\ LET data == Head(clients[i].messages)
           heard == IF clients[i].page /\ "message" \notin listeners THEN <<>>
                    ELSE serviceWorkerMessage(data)
       IN /\ clients' = [clients EXCEPT
                           ![i].messages = Tail(@),
                           ![i].received = @ \o [k \in 1..Len(heard) |-> heard[k].url]]
          /\ pwaIn' = IF clients[i].page THEN pwaIn \o heard ELSE pwaIn
    /\ UNCHANGED <<pushEvents, notifications, clicks, opened>>
    /\ notificationFrame


\* The build script calls generateSW(config) and writes the output.
Generate(config) ==
    /\ Len(generated) < MaxBuilds
    /\ generated' = Append(generated, [config |-> config, output |-> generateSW(config)])
    /\ UNCHANGED <<workerVars, platformVars, windowVars, bridgeVars, pushVars, codecVars,
                   notificationVars, decoded>>


\* The command values of the Elm module: Pwa.acceptUpdate, Pwa.requestInstall,
\* Pwa.requestNotificationPermission, Pwa.subscribePush key and
\* Pwa.unsubscribePush, as Encode.object builds them.
ElmCommands(vapidPublicKey) ==
    {Msg("acceptUpdate", <<>>), Msg("requestInstall", <<>>),
     Msg("requestNotificationPermission", <<>>),
     Msg("subscribePush", vapidPublicKey), Msg("unsubscribePush", <<>>)}

\* Mutant: the switch compares the tags without regard to case.
pwaOutAnyCase(m) ==
    LET tag == IF m.tag = "RequestInstall" THEN "requestInstall" ELSE m.tag IN
    \/ /\ tag \in {"requestNotificationPermission", "subscribePush", "unsubscribePush"}
       /\ PushCommand(m)
    \/ /\ tag \notin {"requestNotificationPermission", "subscribePush", "unsubscribePush"}
       /\ "pwaOut" \in listeners
       /\ commands < MaxCommands
       /\ commands' = commands + 1
       /\ msg' = m
       /\ lookups' = lookups + (IF tag = "acceptUpdate" /\ hasServiceWorker THEN 1 ELSE 0)
       /\ prompts' = IF tag = "requestInstall"
                     THEN [e \in DOMAIN prompts |->
                             IF e \in requestInstall(deferredPrompt)
                             THEN [prompts[e] EXCEPT !.prompted = @ + 1] ELSE prompts[e]]
                     ELSE prompts
       /\ UNCHANGED <<workerVars, hasServiceWorker, NotificationApi, pushManager,
                      subscription, pending, codecVars, notificationVars, generated, decoded,
                      platformVars, onLine, readyState, reloads, posted, browserEvents,
                      listeners, newWorkers, pwaIn, registering, refreshing, deferredPrompt>>

\* ports.pwaOut.subscribe: the whole switch on msg.tag, which has the five cases
\* and no default.
pwaOut(m) ==
    \/ /\ m.tag \in {"requestNotificationPermission", "subscribePush", "unsubscribePush"}
       /\ PushCommand(m)
    \/ /\ m.tag \notin {"requestNotificationPermission", "subscribePush", "unsubscribePush"}
       /\ "pwaOut" \in listeners
       /\ commands < MaxCommands
       /\ commands' = commands + 1
       /\ msg' = m
       /\ lookups' = lookups + (IF m.tag = "acceptUpdate" /\ hasServiceWorker THEN 1 ELSE 0)
       /\ prompts' = IF m.tag = "requestInstall"
                     THEN [e \in DOMAIN prompts |->
                             IF e \in requestInstall(deferredPrompt)
                             THEN [prompts[e] EXCEPT !.prompted = @ + 1] ELSE prompts[e]]
                     ELSE prompts
       /\ UNCHANGED <<workerVars, hasServiceWorker, NotificationApi, pushManager,
                      subscription, pending, codecVars, notificationVars, generated, decoded,
                      platformVars, onLine, readyState, reloads, posted, browserEvents,
                      listeners, newWorkers, pwaIn, registering, refreshing, deferredPrompt>>

\* pwaIn.send(m): the JSON value the port hands to the application, with the
\* tag and the one field the object literal of the sending site has.
Wire(m) ==
    LET field == CASE m.tag = "connectionChanged" -> "online"
                   [] m.tag = "notificationPermissionChanged" -> "permission"
                   [] m.tag = "pushSubscription" -> "subscription"
                   [] m.tag = "pushSubscriptionError" -> "error"
                   [] m.tag = "notificationClicked" -> "url"
                   [] OTHER -> "tag"
    IN [f \in {"tag", field} |->
          CASE f = "tag" -> Json("string", m.tag)
            [] f = "online" -> Json("bool", IF m.online THEN "true" ELSE "false")
            [] f = "permission" -> Json("string", m.permission)
            [] f = "subscription" -> Json("object", "{}")
            [] f = "error" -> Json(typeof(m.error), m.error)
            [] f = "url" -> Json(typeof(m.url), m.url)]

\* A value arrives on the pwaIn port and the application decodes it.
Decode(value) ==
    /\ Len(decoded) < MaxDecodes
    /\ decoded' = Append(decoded, [value |-> value, result |-> decodeEvent(value)])
    /\ UNCHANGED <<workerVars, platformVars, windowVars, bridgeVars, pushVars, codecVars,
                   notificationVars, generated>>


\* ------------------------------------------------------------ specification
\* The browser has no Push API and the application sends no push message.
NoPush ==
    /\ pushManager = FALSE
    /\ subscription = Null
    /\ pending = NonePending
    /\ msg = NoMsg

\* No key has been decoded.
NoKey ==
    /\ applicationServerKey = <<>>
    /\ keyArray = <<>>

\* No push message arrives and no notification is shown or clicked; the
\* build script is not running.
NoNotifications ==
    /\ pushEvents = <<>>
    /\ notifications = <<>>
    /\ clients = <<>>
    /\ clicks = <<>>
    /\ opened = <<>>
    /\ generated = <<>>
    /\ decoded = <<>>

\* No page is modelled: the worker's handlers run on their own.
NoPage ==
    /\ hasServiceWorker = TRUE
    /\ NotificationApi = "default"
    /\ onLine = TRUE
    /\ readyState = "loading"
    /\ listeners = {}
    /\ newWorkers = {}
    /\ pwaIn = <<>>
    /\ registering = "none"
    /\ refreshing = FALSE
    /\ deferredPrompt = Null
    /\ prompts = <<>>
    /\ lookups = 0
    /\ reloads = 0
    /\ controllerchanges = 0
    /\ swState = [v \in Versions |-> "parsed"]
    /\ skipWaitingFlag = [v \in Versions |-> FALSE]
    /\ inbox = [v \in Versions |-> <<>>]
    /\ controller = Null
    /\ commands = 0
    /\ posted = 0
    /\ browserEvents = 0
    /\ NoPush
    /\ NoKey
    /\ NoNotifications

\* A store left behind by an earlier deploy that used another cache name.
OldStore == [name |-> "v0",
             entries |-> [EmptyEntries EXCEPT ![Root] = Response(Root, TRUE, OldDeploy)]]

\* Version 1 is generated from any configuration; version 2 is the same
\* application deployed again with the cache name bumped.
Init ==
    /\ \E c \in Configs :
          SW_CONFIG = [w \in Workers |->
                         generateSW(IF w = 1 THEN c ELSE [c EXCEPT !.cacheName = "v2"])]
    /\ caches \in {<<>>, <<OldStore>>}
    /\ state = [w \in Workers |-> "parsed"]
    /\ installing = [w \in Workers |-> [pc |-> "idle", attempted |-> {}]]
    /\ activating = [w \in Workers |-> [pc |-> "idle", names |-> {}, pending |-> {}]]
    /\ events = <<>>
    /\ NoPage

Next ==
    \/ \E w \in Workers : InstallEvent(w)
    \/ \E w \in Workers : InstallOpens(w)
    \/ \E w \in Workers : \E failed \in SUBSET Urls : AddAllSettles(w, failed)
    \/ \E w \in Workers : ActivateEvent(w)
    \/ \E w \in Workers : KeysResolves(w)
    \/ \E w \in Workers : \E n \in StoreNames(caches) : DeleteResolves(w, n)
    \/ \E w \in Workers : ActivateDone(w)
    \/ \E w \in Workers : \E req \in Requests : FetchEvent(w, req)
    \/ \E e \in 1..Len(events) : MatchResolves(e)
    \/ \E e \in 1..Len(events) : \E o \in NetOutcomes(events[e]) : FetchSettles(e, o)
    \/ \E e \in 1..Len(events) : CatchResolves(e)
    \/ \E e \in 1..Len(events) : PutOpens(e)
    \/ \E e \in 1..Len(events) : PutWrites(e)

Spec == Init /\ [][Next]_vars

\* A later deploy that also changes the list of precached URLs.
DeployInit ==
    /\ \E c \in Configs : \E p \in PrecacheLists \ {c.precacheUrls} :
          SW_CONFIG = [w \in Workers |->
                         generateSW(IF w = 1 THEN c
                                    ELSE [c EXCEPT !.cacheName = "v2", !.precacheUrls = p])]
    /\ caches \in {<<>>, <<OldStore>>}
    /\ state = [w \in Workers |-> "parsed"]
    /\ installing = [w \in Workers |-> [pc |-> "idle", attempted |-> {}]]
    /\ activating = [w \in Workers |-> [pc |-> "idle", names |-> {}, pending |-> {}]]
    /\ events = <<>>
    /\ NoPage
DeploySpec == DeployInit /\ [][Next]_vars

\* ------------------------------------------------------------------ bridge
\* The worker's handlers are not run: the registration's versions are followed
\* through ServiceWorker.state only.
NoWorkerRun ==
    /\ SW_CONFIG = [w \in Workers |->
                      generateSW([cacheName |-> IF w = 1 THEN "v1" ELSE "v2",
                                  precacheUrls |-> <<Root>>,
                                  navigationFallback |-> NotGiven,
                                  networkFirstPrefixes |-> NotGiven,
                                  networkOnlyPrefixes |-> NotGiven])]
    /\ caches = <<>>
    /\ state = [w \in Workers |-> "parsed"]
    /\ installing = [w \in Workers |-> [pc |-> "idle", attempted |-> {}]]
    /\ activating = [w \in Workers |-> [pc |-> "idle", names |-> {}, pending |-> {}]]
    /\ events = <<>>

\* A page is opened: on a first visit, on a later visit (controlled or not by
\* the active version 1), or while version 2 is already waiting.
PageInit ==
    /\ NoWorkerRun
    /\ hasServiceWorker \in BOOLEAN
    /\ NotificationApi \in {"absent", "default", "granted", "denied"}
    /\ onLine = TRUE
    /\ readyState = "loading"
    /\ listeners = {}
    /\ newWorkers = {}
    /\ pwaIn = <<>>
    /\ registering = "none"
    /\ refreshing = FALSE
    /\ deferredPrompt = Null
    /\ prompts = <<>>
    /\ lookups = 0
    /\ reloads = 0
    /\ controllerchanges = 0
    /\ \E visit \in {"first", "uncontrolled", "controlled", "waiting"} :
          /\ visit # "first" => hasServiceWorker
          /\ swState = [v \in Versions |->
                          IF v = 1 /\ visit # "first" THEN "activated"
                          ELSE IF v = 2 /\ visit = "waiting" THEN "installed"
                          ELSE "parsed"]
          /\ controller = IF visit \in {"controlled", "waiting"} THEN 1 ELSE Null
    /\ skipWaitingFlag = [v \in Versions |-> FALSE]
    /\ inbox = [v \in Versions |-> <<>>]
    /\ commands = 0
    /\ posted = 0
    /\ browserEvents = 0

\* The page in a browser without the Push API, with no notification around.
BridgeInit == PageInit /\ NoPush /\ NoKey /\ NoNotifications

\* The update flow: registration, the versions' life cycle, the messages posted
\* to the workers and the acceptUpdate command.
UpdateInit == BridgeInit /\ NotificationApi = "default"

UpdateNext ==
    \/ init
    \/ Load
    \/ \E ok \in BOOLEAN : RegisterSettles(ok)
    \/ \E v \in Versions : UpdateFound(v)
    \/ \E v \in Versions : \E ok \in BOOLEAN : InstallSettles(v, ok)
    \/ \E v \in Versions : Activate(v)
    \/ \E v \in Versions : Activated(v)
    \/ \E v \in Versions : Message(v)
    \/ \E v \in Versions : \E data \in MessageData : PostMessage(v, data)
    \/ \E tag \in {"acceptUpdate", "unknown"} : Command(tag)
    \/ GetRegistrationResolves

UpdateSpec == UpdateInit /\ [][UpdateNext]_vars

\* The page's own events: init, load and registration, connectivity, the
\* install prompt and the requestInstall command; the versions stay as they
\* were when the page was opened.
PromptNext ==
    \/ init
    \/ Load
    \/ \E ok \in BOOLEAN : RegisterSettles(ok)
    \/ \E online \in BOOLEAN : Connectivity(online)
    \/ BeforeInstallPrompt
    \/ AppInstalled
    \/ \E tag \in {"requestInstall", "unknown"} : Command(tag)
    \/ \E e \in DOMAIN prompts : \E outcome \in {"accepted", "dismissed"} :
          UserChoice(e, outcome)

PromptSpec == BridgeInit /\ [][PromptNext]_vars

\* The update handshake alone, with the scheduling the event loops guarantee:
\* a resolved promise runs its callback, a posted message is delivered to a
\* running worker, and the browser carries out an activation that is due.
HandshakeNext ==
    \/ init
    \/ Load
    \/ \E ok \in BOOLEAN : RegisterSettles(ok)
    \/ \E v \in Versions : UpdateFound(v)
    \/ \E v \in Versions : \E ok \in BOOLEAN : InstallSettles(v, ok)
    \/ \E v \in Versions : Activate(v)
    \/ \E v \in Versions : Activated(v)
    \/ \E v \in Versions : Message(v)
    \/ Command("acceptUpdate")
    \/ GetRegistrationResolves

HandshakeFair ==
    /\ UpdateInit
    /\ [][HandshakeNext]_vars
    /\ WF_vars(init)
    /\ WF_vars(Load)
    /\ WF_vars(\E ok \in BOOLEAN : RegisterSettles(ok))
    /\ WF_vars(GetRegistrationResolves)
    /\ \A v \in Versions :
          WF_vars(Message(v)) /\ WF_vars(Activate(v)) /\ WF_vars(Activated(v))

\* ------------------------------------------------------------------- push
Base64Url == [i \in 1..64 |-> IF i = 63 THEN "-" ELSE IF i = 64 THEN "_" ELSE Base64[i]]
\* The key as the backend hands it to the application: base64url without
\* padding, three bytes to four characters, a last group of one or two bytes
\* to two or three characters.
UrlBase64(bytes) ==
    LET n == (Len(bytes) * 8 + 5) \div 6
        at(j) == IF j <= Len(bytes) THEN bytes[j] ELSE 0
        sextet(i) ==
            LET g == 3 * ((i - 1) \div 4) IN
            CASE (i - 1) % 4 = 0 -> at(g + 1) \div 4
              [] (i - 1) % 4 = 1 -> (at(g + 1) % 4) * 16 + at(g + 2) \div 16
              [] (i - 1) % 4 = 2 -> (at(g + 2) % 16) * 4 + at(g + 3) \div 64
              [] (i - 1) % 4 = 3 -> at(g + 3) % 64
    IN [i \in 1..n |-> Base64Url[sextet(i) + 1]]

\* The key of the backend in the push slice, and a key that lost all but its
\* first character on the way to the application.
ServerKey == <<251, 255, 190>>
Truncated(key) == SubSeq(key, 1, 1)
PushMessages ==
    {Msg("requestNotificationPermission", <<>>),
     Msg("subscribePush", UrlBase64(ServerKey)),
     Msg("subscribePush", Truncated(UrlBase64(ServerKey))),
     Msg("unsubscribePush", <<>>)}

\* A page is opened in a browser that may have the Push API; an earlier visit
\* may have left a subscription, which takes a registration, the Push API and
\* the permission.
PushInit ==
    /\ PageInit
    /\ swState[2] = "parsed"
    /\ pushManager \in BOOLEAN
    /\ pushManager => hasServiceWorker
    /\ subscription \in {Null, ExistingSubscription}
    /\ subscription # Null =>
          pushManager /\ swState[1] = "activated" /\ NotificationApi = "granted"
    /\ pending = NonePending
    /\ msg = NoMsg
    /\ applicationServerKey = ServerKey
    /\ keyArray = <<>>
    /\ NoNotifications

PushNext ==
    \/ init
    \/ Load
    \/ \E ok \in BOOLEAN : RegisterSettles(ok)
    \/ \E m \in PushMessages : PushCommand(m)
    \/ \E result \in {"default", "granted", "denied"} : PermissionResolves(result)
    \/ RegisteredGetSubscriptionResolves
    \/ SubscribeResolves
    \/ \E err \in Errors : SubscribeRejects(err)
    \/ GetSubscriptionResolves
    \/ \E ok \in BOOLEAN : UnsubscribeSettles(ok)

PushSpec == PushInit /\ [][PushNext]_vars

\* The promises settle and their callbacks run.
PushFair ==
    /\ PushSpec
    /\ WF_vars(\E result \in {"default", "granted", "denied"} : PermissionResolves(result))
    /\ WF_vars(RegisteredGetSubscriptionResolves)
    /\ WF_vars(SubscribeResolves \/ \E err \in Errors : SubscribeRejects(err))
    /\ WF_vars(GetSubscriptionResolves)
    /\ WF_vars(\E ok \in BOOLEAN : UnsubscribeSettles(ok))


\* -------------------------------------------------------------- key decoding
MaxKeyLen == 3
\* Bytes whose sextets fall on both url characters, on the first and on the
\* last character of the alphabet.
KeyBytes == {0, 190, 251, 255}
RECURSIVE Strings(_, _)
Strings(alphabet, n) ==
    IF n = 0 THEN {<<>>}
    ELSE Strings(alphabet, n - 1)
         \cup {Append(str, c) : str \in {x \in Strings(alphabet, n - 1) : Len(x) = n - 1},
                                c \in alphabet}
\* Every short key over these bytes, and the keys of 32 bytes that repeat a
\* pattern of one or two of them.
Keys ==
    Strings(KeyBytes, MaxKeyLen)
    \cup {[i \in 1..32 |-> pattern[((i - 1) % Len(pattern)) + 1]] :
            pattern \in Strings(KeyBytes, 2) \ {<<>>}}

\* The page of a returning visitor after init, load and registration, in a
\* browser with the Push API and the permission granted; the application was
\* given the key of its backend.
DecodeInit ==
    /\ NoWorkerRun
    /\ hasServiceWorker = TRUE
    /\ NotificationApi = "granted"
    /\ onLine = TRUE
    /\ readyState = "complete"
    /\ listeners = {"online", "offline", "beforeinstallprompt", "appinstalled", "pwaOut",
                    "load", "controllerchange", "message", "updatefound",
                    "visibilitychange"}
    /\ newWorkers = {}
    /\ pwaIn = sendNotificationPermission("granted") \o registered(Null)
    /\ registering = "fulfilled"
    /\ refreshing = FALSE
    /\ deferredPrompt = Null
    /\ prompts = <<>>
    /\ lookups = 0
    /\ reloads = 0
    /\ controllerchanges = 0
    /\ swState = [v \in Versions |-> IF v = 1 THEN "activated" ELSE "parsed"]
    /\ skipWaitingFlag = [v \in Versions |-> FALSE]
    /\ inbox = [v \in Versions |-> <<>>]
    /\ controller = 1
    /\ commands = 0
    /\ posted = 0
    /\ browserEvents = 0
    /\ pushManager = TRUE
    /\ subscription = Null
    /\ pending = NonePending
    /\ msg = NoMsg
    /\ applicationServerKey \in Keys
    /\ keyArray = <<>>
    /\ NoNotifications

DecodeNext ==
    \/ PushCommand(Msg("subscribePush", UrlBase64(applicationServerKey)))
    \/ SubscribeResolves
    \/ \E err \in Errors : SubscribeRejects(err)

DecodeSpec == DecodeInit /\ [][DecodeNext]_vars

\* ------------------------------------------------------------ notifications
\* The windows of the application when a push message arrives: none, the page
\* alone, the page next to another window of the application or to a window
\* it opened on about:blank, or such a window alone.
ClientSetups == {<<>>, <<Page>>, <<Blank, Page>>, <<Other, Page>>, <<Page, Other>>, <<Blank>>}
PageOpen == \E i \in DOMAIN clients : clients[i].page

\* A subscribed installation: version 1 is active, the permission is granted
\* and the subscription exists; the page, if open, is about to run init.
NotificationInit ==
    /\ PageInit
    /\ hasServiceWorker
    /\ NotificationApi = "granted"
    /\ swState = [v \in Versions |-> IF v = 1 THEN "activated" ELSE "parsed"]
    /\ controller = 1
    /\ pushManager = TRUE
    /\ subscription = ExistingSubscription
    /\ pending = NonePending
    /\ msg = NoMsg
    /\ NoKey
    /\ pushEvents = <<>>
    /\ notifications = <<>>
    /\ clients \in ClientSetups
    /\ clicks = <<>>
    /\ opened = <<>>
    /\ generated = <<>>
    /\ decoded = <<>>

NotificationNext ==
    \/ PageOpen /\ init
    \/ PageOpen /\ Load
    \/ PageOpen /\ \E ok \in BOOLEAN : RegisterSettles(ok)
    \/ PageOpen /\ RegisteredGetSubscriptionResolves
    \/ \E data \in PushData : PushEvent(data)
    \/ \E n \in DOMAIN notifications : NotificationClick(n)
    \/ \E c \in DOMAIN clicks : MatchAllResolves(c)
    \/ \E c \in DOMAIN clicks : \E ok \in BOOLEAN : FocusSettles(c, ok)
    \/ \E i \in DOMAIN clients : ClientMessage(i)

NotificationSpec == NotificationInit /\ [][NotificationNext]_vars

\* Promises settle and posted messages are delivered.
NotificationFair ==
    /\ NotificationSpec
    /\ WF_vars(\E c \in DOMAIN clicks : MatchAllResolves(c))
    /\ WF_vars(\E c \in DOMAIN clicks : \E ok \in BOOLEAN : FocusSettles(c, ok))
    /\ WF_vars(\E i \in DOMAIN clients : ClientMessage(i))

\* ------------------------------------------------------------------- build
\* The objects a build script passes: the five fields, and a sixth that
\* generateSW does not know, left out or given; then the same objects with
\* one or both of the required fields left out.
CompleteConfigs ==
    {[cacheName |-> "v1", precacheUrls |-> p, navigationFallback |-> f,
      networkFirstPrefixes |-> NotGiven, networkOnlyPrefixes |-> NotGiven,
      offlineFallback |-> x] :
         p \in PrecacheLists,
         f \in {NotGiven, Given(<<"/", "a">>)},
         x \in {NotGiven, Given(<< <<"/", "a", "x">> >>)}}
Without(config, fields) == [f \in DOMAIN config \ fields |-> config[f]]
BuildConfigs ==
    {Without(config, fields) :
        config \in CompleteConfigs, fields \in SUBSET {"cacheName", "precacheUrls"}}

BuildInit == NoWorkerRun /\ NoPage
BuildNext == \E config \in BuildConfigs : Generate(config)
BuildSpec == BuildInit /\ [][BuildNext]_vars

\* ------------------------------------------------------------- decodeEvent
\* The values a port may deliver: an object with a tag (one of the ten, an
\* unknown one, or one that is not a string) or without, and with at most one
\* of the payload fields: the field the bridge sends with the tag, holding a
\* value of any type, or another field, holding a string.
Tags == {"connectionChanged", "updateAvailable", "installAvailable", "installed",
         "installedInBrowser", "notificationPermissionChanged", "pushSubscription",
         "pushSubscriptionError", "pushUnsubscribed", "notificationClicked"}
JsonValues ==
    {Json("bool", "true"), Json("bool", "false"), Json("number", "7"), Json("null", "null"),
     Json("object", "{}"), Json("string", ""), Json("string", "/a"),
     Json("string", "granted"), Json("string", "denied"), Json("string", "default"),
     Json("string", "unsupported"), Json("string", "Granted")}
PayloadFields == {"online", "permission", "subscription", "error", "url"}
Carries == {<<"connectionChanged", "online">>,
            <<"notificationPermissionChanged", "permission">>,
            <<"pushSubscription", "subscription">>,
            <<"pushSubscriptionError", "error">>,
            <<"notificationClicked", "url">>}
WireValues ==
    LET tags == {<<>>} \cup {<<Json("string", t)>> : t \in Tags \cup {"unknown"}}
                       \cup {<<Json("number", "7")>>}
        payloads == {<<>>} \cup {<<f, v>> : f \in PayloadFields, v \in JsonValues}
        pairs == {y \in tags \X payloads :
                    \/ y[2] = <<>>
                    \/ y[2][2] = Json("string", "/a")
                    \/ y[1] # <<>> /\ <<y[1][1].text, y[2][1]>> \in Carries}
    IN {[f \in (IF y[1] = <<>> THEN {} ELSE {"tag"})
                 \cup (IF y[2] = <<>> THEN {} ELSE {y[2][1]}) |->
           IF f = "tag" THEN y[1][1] ELSE y[2][2]] : y \in pairs}

DecodeEventInit == NoWorkerRun /\ NoPage
DecodeEventNext == \E value \in WireValues : Decode(value)
DecodeEventSpec == DecodeEventInit /\ [][DecodeEventNext]_vars

\* ---------------------------------------------------------------- commands
\* The application issues the command values of the Elm module, and values no
\* function of the module builds.
CommandMessages ==
    ElmCommands(UrlBase64(ServerKey))
       \cup {Msg("unknown", <<>>), Msg("RequestInstall", <<>>),
             Msg("subscribe", UrlBase64(ServerKey))}
CommandNext ==
    \/ init
    \/ Load
    \/ \E ok \in BOOLEAN : RegisterSettles(ok)
    \/ BeforeInstallPrompt
    \/ \E m \in CommandMessages : pwaOut(m)
CommandSpec == PushInit /\ [][CommandNext]_vars

\* ------------------------------------------------------------ registration
\* The page of PromptSpec, where the application's call of init, the load
\* event and the settling of register() each happen once they can.
RegistrationFair ==
    /\ PromptSpec
    /\ WF_vars(init)
    /\ WF_vars(Load)
    /\ WF_vars(\E ok \in BOOLEAN : RegisterSettles(ok))

\* ------------------------------------------------------------ self-promotion
\* The update flow where the commands are followed by their tag and the other
\* scripts of the page post messages of their own, not the SKIP_WAITING message.
AcceptMessages == {Msg("acceptUpdate", <<>>), Msg("unsubscribePush", <<>>)}
AcceptNext ==
    \/ init
    \/ Load
    \/ \E ok \in BOOLEAN : RegisterSettles(ok)
    \/ \E v \in Versions : UpdateFound(v)
    \/ \E v \in Versions : \E ok \in BOOLEAN : InstallSettles(v, ok)
    \/ \E v \in Versions : Activate(v)
    \/ \E v \in Versions : Activated(v)
    \/ \E v \in Versions : Message(v)
    \/ \E v \in Versions : PostMessage(v, Data("object", "PING"))
    \/ \E m \in AcceptMessages : pwaOut(m)
    \/ GetRegistrationResolves
AcceptSpec == UpdateInit /\ [][AcceptNext]_vars

\* =================================================================== claims
\* Vocabulary of the claims, defined apart from the handlers.
IsPrefixOf(p, s) == Len(p) <= Len(s) /\ SubSeq(s, 1, Len(p)) = p
MatchesSome(prefixes, path) == \E i \in DOMAIN prefixes : IsPrefixOf(prefixes[i], path)
Config(ev) == SW_CONFIG[ev.w]
InNetworkOnly(ev) ==
    ev.req.mode # "navigate" /\ MatchesSome(Config(ev).networkOnlyPrefixes, ev.req.url)
InNetworkFirst(ev) ==
    /\ ev.req.mode # "navigate"
    /\ ~MatchesSome(Config(ev).networkOnlyPrefixes, ev.req.url)
    /\ MatchesSome(Config(ev).networkFirstPrefixes, ev.req.url)
InDefault(ev) ==
    /\ ev.req.mode # "navigate"
    /\ ~MatchesSome(Config(ev).networkOnlyPrefixes, ev.req.url)
    /\ ~MatchesSome(Config(ev).networkFirstPrefixes, ev.req.url)
Event(e) == events[e]
EventIds == 1..Len(events)

\* The stores, by position in CacheStorage, that hold a response for URL u.
Holding(cs, u) == {i \in 1..Len(cs) : cs[i].entries[u].kind = "response"}
\* What a lookup of a GET for u over the whole CacheStorage finds.
Held(cs, u) ==
    IF Holding(cs, u) = {} THEN Undefined
    ELSE cs[CHOOSE i \in Holding(cs, u) : \A j \in Holding(cs, u) : i <= j].entries[u]
\* What a lookup of the request of event ev finds.
HeldFor(cs, ev) == IF ev.req.method = "GET" THEN Held(cs, ev.req.url) ELSE Undefined
\* Event e takes a step.
Steps(e) == events'[e] # events[e]
\* An answered event keeps its answer and makes no further call.
Answered(e) ==
    Event(e).pc = "done" =>
        /\ events'[e].pc = "done" /\ events'[e].result = Event(e).result
        /\ events'[e].fetches = Event(e).fetches /\ events'[e].reads = Event(e).reads

\* C1: a request that is not a navigation is handled network-only when its path
\* starts with a networkOnlyPrefixes entry (whether or not it also starts with a
\* networkFirstPrefixes entry), else network-first when it starts with a
\* networkFirstPrefixes entry, else cache-first.
C1_StrategyOrder ==
    \A e \in EventIds :
        Event(e).req.mode # "navigate" =>
            Event(e).strategy = IF InNetworkOnly(Event(e)) THEN "networkOnly"
                                ELSE IF InNetworkFirst(Event(e)) THEN "networkFirst"
                                ELSE "cacheFirst"

C1_Witness ==
    \E e \in EventIds :
        /\ InNetworkOnly(Event(e))
        /\ MatchesSome(Config(Event(e)).networkFirstPrefixes, Event(e).req.url)
        /\ Event(e).strategy = "networkOnly"
        /\ Event(e).pc = "done"

\* C2: a navigation looks the navigation fallback up before anything else,
\* whatever its path; when CacheStorage holds an entry for the fallback as the
\* lookup resolves, the event is answered with that entry and no fetch is made.
C2_NavigationFallback ==
    /\ [](\A e \in EventIds :
            Event(e).req.mode = "navigate" =>
                /\ Event(e).reads >= 1
                /\ Event(e).pc = "match" => Event(e).fetches = 0)
    /\ [][\A e \in EventIds :
            /\ Answered(e)
            /\ (/\ Event(e).req.mode = "navigate"
                /\ Event(e).pc = "match"
                /\ Steps(e)
                /\ Holding(caches, Config(Event(e)).navigationFallback) # {})
               => /\ events'[e].pc = "done"
                  /\ events'[e].result = Held(caches, Config(Event(e)).navigationFallback)
                  /\ events'[e].fetches = 0]_vars

C2_Witness ==
    \E e \in EventIds :
        /\ Event(e).req.mode = "navigate"
        /\ MatchesSome(Config(Event(e)).networkOnlyPrefixes, Event(e).req.url)
        /\ Event(e).req.url # Config(Event(e)).navigationFallback
        /\ Event(e).pc = "done"
        /\ Event(e).fetches = 0
        /\ Event(e).result.kind = "response"
        /\ Event(e).result.url = Config(Event(e)).navigationFallback

\* C3: a request handled network-only makes exactly one fetch and no cache
\* lookup, schedules no cache write, is answered with what the fetch settled to
\* (a response or the failure), and none of its steps changes CacheStorage.
C3_NetworkOnlyNoCache ==
    /\ [](\A e \in EventIds :
            InNetworkOnly(Event(e)) =>
                /\ Event(e).reads = 0
                /\ Event(e).fetches = 1
                /\ Event(e).put = "none"
                /\ Event(e).pc \in {"fetch", "done"}
                /\ Event(e).pc = "done" => Event(e).result = Event(e).net)
    /\ [][\A e \in EventIds :
            (InNetworkOnly(Event(e)) /\ Steps(e)) => caches' = caches]_vars

C3_Witness ==
    \E e \in EventIds :
        /\ InNetworkOnly(Event(e))
        /\ Event(e).pc = "done"
        /\ Event(e).result = NetworkError
        /\ HeldFor(caches, Event(e)).kind = "response"

\* The store named n, as a set of positions in CacheStorage (empty or one).
StoreNamed(cs, n) == {i \in 1..Len(cs) : cs[i].name = n}
\* The store named n holds a response for URL u.
StoreHolds(cs, n, u) == \E i \in StoreNamed(cs, n) : cs[i].entries[u].kind = "response"
FromNetwork(ev) == ev.net.kind = "response"

\* C4 (as claimed): a network-first request whose fetch returned an ok response
\* is answered with that response and, once the detached cache write has
\* settled, the store named cacheName holds a response under the request's URL.
C4_OkResponseStored ==
    \A e \in EventIds :
        (InNetworkFirst(Event(e)) /\ FromNetwork(Event(e)) /\ Event(e).net.ok) =>
            /\ Event(e).pc = "done" /\ Event(e).result = Event(e).net
            /\ Event(e).put \in {"stored", "rejected"} =>
                   StoreHolds(caches, Config(Event(e)).cacheName, Event(e).req.url)

\* C5: a network-first request whose fetch failed makes no second fetch and no
\* cache write; it is answered with what the lookup of that request finds as
\* it resolves: the cached entry, or undefined when there is none.
C5_NetworkFirstFallback ==
    /\ [](\A e \in EventIds :
            (InNetworkFirst(Event(e)) /\ Event(e).net = NetworkError) =>
                /\ Event(e).fetches = 1
                /\ Event(e).put = "none"
                /\ Event(e).pc \in {"catch", "done"}
                /\ Event(e).pc = "done" =>
                      /\ Event(e).result # NetworkError
                      /\ Event(e).result.kind = "response" =>
                            /\ Event(e).result.url = Event(e).req.url
                            /\ Event(e).result.by # FetchOf(e))
    /\ [][\A e \in EventIds :
            (InNetworkFirst(Event(e)) /\ Event(e).pc = "catch" /\ Steps(e)) =>
                /\ events'[e].pc = "done"
                /\ events'[e].result = HeldFor(caches, Event(e))
                /\ events'[e].fetches = 1]_vars

C5_Witness ==
    \E e \in EventIds :
        /\ InNetworkFirst(Event(e))
        /\ Event(e).net = NetworkError
        /\ Event(e).pc = "done"
        /\ Event(e).result.kind = "response"

\* C6: only ok responses are written to a cache: a cache write is scheduled
\* only for an ok response, every cached entry is ok, and a network-first
\* request whose fetch returned a response that is not ok is answered with
\* that response, schedules no write and leaves CacheStorage as it was.
C6_OnlyOkCached ==
    /\ [](/\ \A e \in EventIds :
                Event(e).put # "none" => (FromNetwork(Event(e)) /\ Event(e).net.ok)
          /\ \A i \in 1..Len(caches) : \A u \in Urls :
                caches[i].entries[u].kind = "response" => caches[i].entries[u].ok
          /\ \A e \in EventIds :
                (InNetworkFirst(Event(e)) /\ FromNetwork(Event(e)) /\ ~Event(e).net.ok) =>
                    /\ Event(e).pc = "done"
                    /\ Event(e).result = Event(e).net
                    /\ Event(e).put = "none"
                    /\ Event(e).fetches = 1)
    /\ [][\A e \in EventIds :
            (/\ InNetworkFirst(Event(e)) /\ Steps(e)
             /\ events'[e].net.kind = "response" /\ ~events'[e].net.ok)
            => caches' = caches]_vars

C6_Witness ==
    \E e \in EventIds :
        /\ InNetworkFirst(Event(e))
        /\ FromNetwork(Event(e)) /\ ~Event(e).net.ok
        /\ Event(e).pc = "done"
        /\ HeldFor(caches, Event(e)).kind = "response"
        /\ HeldFor(caches, Event(e)).by = InstallOf(Event(e).w)

C8_CacheFirstStoresMiss ==
    \A e \in EventIds :
        (/\ InDefault(Event(e)) /\ Event(e).req.method = "GET"
         /\ Event(e).pc = "done" /\ Event(e).fetches = 1
         /\ FromNetwork(Event(e)) /\ Event(e).net.ok
         /\ Event(e).put \notin {"open", "put"})
        => HeldFor(caches, Event(e)).kind = "response"

PrecacheSet(w) == {SW_CONFIG[w].precacheUrls[k] : k \in DOMAIN SW_CONFIG[w].precacheUrls}
PrecachedBy(w) ==
    {iu \in (1..Len(caches)) \X Urls : caches[iu[1]].entries[iu[2]].by = InstallOf(w)}

\* C9: the install handler fetches exactly the URLs of precacheUrls; entries
\* written by an install are in the store named cacheName, under precacheUrls;
\* a worker whose install succeeded has every one of them in that store; a
\* worker whose install failed has written nothing, is redundant for good, never
\* runs its activate handler, and leaves the other worker's state as it was.
C9_InstallAllOrNothing ==
    /\ [](\A w \in Workers :
            /\ installing[w].pc \in {"idle", "open"} => installing[w].attempted = {}
            /\ installing[w].pc \in {"addAll", "fulfilled", "rejected"} =>
                  installing[w].attempted = PrecacheSet(w)
            /\ \A iu \in PrecachedBy(w) :
                  caches[iu[1]].name = SW_CONFIG[w].cacheName /\ iu[2] \in PrecacheSet(w)
            /\ installing[w].pc # "fulfilled" => PrecachedBy(w) = {}
            /\ state[w] \in {"installed", "activating", "activated"} =>
                  /\ installing[w].pc = "fulfilled"
                  /\ \A u \in PrecacheSet(w) : StoreHolds(caches, SW_CONFIG[w].cacheName, u)
            /\ installing[w].pc = "rejected" =>
                  /\ state[w] = "redundant"
                  /\ activating[w].pc = "idle"
                  /\ \A v \in {x \in Workers : x < w} :
                        installing[v].pc = "fulfilled" => state[v] = "activated")
    /\ [][\A w \in Workers :
            /\ state[w] = "redundant" => state'[w] = "redundant"
            /\ (installing[w].pc = "addAll" /\ installing'[w].pc = "rejected") =>
                  /\ caches' = caches
                  /\ \A v \in Workers \ {w} : state'[v] = state[v]]_vars

C9_Witness ==
    /\ installing[2].pc = "rejected"
    /\ Len(SW_CONFIG[2].precacheUrls) = 2
    /\ state = [w \in Workers |-> IF w = 1 THEN "activated" ELSE "redundant"]
    /\ \E i \in StoreNamed(caches, SW_CONFIG[2].cacheName) : caches[i].entries = EmptyEntries

UpdateAvailable == Inbound("updateAvailable")
Handles(v) == inbox[v] # <<>> /\ inbox'[v] = Tail(inbox[v])

\* C11: the worker reacts to a message only when its type is SKIP_WAITING: it
\* then sets its skip waiting flag, which lets the browser promote it when it is
\* the waiting worker; handling any other message (other type, no type field,
\* no data) leaves the flags, the versions' states and the controller unchanged.
C11_OnlySkipWaiting ==
    [][\A v \in Versions : Handles(v) =>
          /\ swState' = swState /\ controller' = controller
          /\ \A u \in Versions \ {v} : skipWaitingFlag'[u] = skipWaitingFlag[u]
          /\ IF Head(inbox[v]) = SKIP_WAITING
             THEN /\ skipWaitingFlag'[v]
                  /\ (swState[v] = "installed" /\ \A u \in Versions : swState[u] # "activating")
                        => CanActivate(swState', skipWaitingFlag', controller', v)
             ELSE skipWaitingFlag'[v] = skipWaitingFlag[v]]_vars

C11_Witness ==
    \E v \in Versions :
        /\ skipWaitingFlag[v] /\ swState[v] = "activated" /\ controller = v
        /\ posted = 1 /\ \A u \in Versions : inbox[u] = <<>> /\ (u # v => ~skipWaitingFlag[u])
        /\ commands = 1

\* C12: when the getRegistration() of an acceptUpdate resolves, exactly one
\* SKIP_WAITING message is posted, to the registration's waiting worker, if
\* there is one; otherwise no message is posted.  The command sends nothing on
\* pwaIn, neither when it is received nor when the lookup resolves, and posts
\* nothing by itself.
C12_AcceptUpdate ==
    /\ [](~hasServiceWorker => lookups = 0)
    /\ [][commands' # commands =>
            /\ inbox' = inbox /\ pwaIn' = pwaIn /\ lookups' \in {lookups, lookups + 1}]_vars
    /\ [][lookups' < lookups =>
            /\ lookups' = lookups - 1
            /\ pwaIn' = pwaIn
            /\ inbox' = IF RegWaiting # Null
                        THEN [inbox EXCEPT ![RegWaiting] = Append(@, SKIP_WAITING)]
                        ELSE inbox]_vars

C12_Witness ==
    /\ swState[2] = "installed" /\ inbox[2] = <<SKIP_WAITING>> /\ posted = 0
    /\ lookups = 1 /\ commands = 2
    /\ swState[1] = "activated" /\ inbox[1] = <<>>

\* C14: location.reload is called at most once in a page, and exactly when the
\* guard flag is set for the first time, however many controllerchange events
\* the listener handles.
C14_ReloadOnce ==
    /\ reloads <= 1
    /\ refreshing <=> reloads = 1
    /\ refreshing <=> controllerchanges >= 1

C14_Witness == controllerchanges = 2 /\ reloads = 1 /\ controller = 3

\* C15: when register() is fulfilled, updateAvailable is sent in the same turn
\* if and only if the registration has a waiting worker; no statechange
\* listener exists before that turn.
C15_WaitingAtRegistration ==
    [][(registering = "pending" /\ registering' = "fulfilled") =>
          /\ newWorkers = {} /\ "updatefound" \notin listeners
          /\ pwaIn' = IF RegWaiting # Null THEN Append(pwaIn, UpdateAvailable) ELSE pwaIn]_vars

C15_Witness ==
    /\ registering = "fulfilled" /\ newWorkers = {} /\ swState[2] = "installed"
    /\ Len(pwaIn) = 2 /\ pwaIn[2] = UpdateAvailable

\* C16: when a version that carries the statechange listener changes state,
\* updateAvailable is sent if and only if its new state is "installed" and the
\* page has a controller; updateAvailable is sent at no other change of state,
\* so never for an install on a page without controller (a first install).
C16_UpdateOnInstalled ==
    [][swState' # swState =>
          LET changed == {v \in Versions : swState'[v] # swState[v]}
              updates == {v \in changed \cap newWorkers :
                            swState'[v] = "installed" /\ controller # Null}
          IN  /\ Cardinality(updates) <= 1
              /\ pwaIn' = IF updates # {} THEN Append(pwaIn, UpdateAvailable) ELSE pwaIn]_vars

C16_Witness ==
    /\ 2 \in newWorkers /\ swState[2] = "installed" /\ controller = 1
    /\ pwaIn # <<>> /\ pwaIn[Len(pwaIn)] = UpdateAvailable
    /\ 3 \in newWorkers /\ swState[3] = "redundant"

Accepting(w) == swState[w] = "installed" /\ controller # Null /\ lookups > 0
Announced == \E i \in DOMAIN pwaIn : pwaIn[i] = UpdateAvailable
TookOver(w) == controller = w /\ controllerchanges >= 1 /\ reloads >= 1

InstallAvailable == Inbound("installAvailable")
Ready == "pwaOut" \in listeners
Fires == browserEvents' = browserEvents + 1
Captures == Len(prompts') = Len(prompts) + 1
Commanded == commands' = commands + 1

\* C17: prompt() is called at most once on a captured event, and an event whose
\* userChoice has resolved is no longer retained.
C17_SingleUse ==
    \A e \in DOMAIN prompts :
        /\ prompts[e].prompted <= 1
        /\ prompts[e].userChoice # "pending" => deferredPrompt # e

\* C18: a beforeinstallprompt event the listener receives is default-prevented,
\* becomes the retained prompt and adds exactly installAvailable to pwaIn;
\* prompt() is called only by a command that finds that event retained, and a
\* command that finds no retained prompt changes nothing.
C18_PromptRetained ==
    /\ [][(Captures /\ Ready) =>
            /\ prompts'[Len(prompts')].defaultPrevented
            /\ deferredPrompt' = Len(prompts')
            /\ pwaIn' = Append(pwaIn, InstallAvailable)]_vars
    /\ [][\A e \in DOMAIN prompts : prompts'[e].prompted # prompts[e].prompted =>
            /\ Commanded /\ deferredPrompt = e /\ prompts[e].defaultPrevented
            /\ prompts'[e].prompted = prompts[e].prompted + 1]_vars
    /\ [][(Commanded /\ deferredPrompt = Null) =>
            /\ prompts' = prompts /\ pwaIn' = pwaIn /\ deferredPrompt' = Null]_vars

C18_Witness ==
    /\ Len(prompts) = 1 /\ prompts[1].defaultPrevented /\ prompts[1].prompted = 1
    /\ deferredPrompt = 1 /\ pwaIn[Len(pwaIn)] = InstallAvailable
    /\ commands = 1 /\ browserEvents = 1

\* C19: every browser event the bridge listens to adds exactly one message, its
\* own, at the end of pwaIn, and no step removes, merges or reorders what was
\* sent: beforeinstallprompt then appinstalled is installAvailable then
\* installed.
C19_OneMessagePerEvent ==
    /\ [][/\ Len(pwaIn') \in {Len(pwaIn), Len(pwaIn) + 1}
          /\ SubSeq(pwaIn', 1, Len(pwaIn)) = pwaIn]_vars
    /\ [][(Fires /\ Ready) =>
            pwaIn' = Append(pwaIn,
                        IF Captures THEN InstallAvailable
                        ELSE IF onLine' # onLine THEN connectionChanged(onLine')
                        ELSE Inbound("installed"))]_vars

C19_Witness ==
    /\ Len(pwaIn) = 3 /\ pwaIn[2] = InstallAvailable /\ pwaIn[3] = Inbound("installed")
    /\ Len(prompts) = 1 /\ prompts[1].defaultPrevented

\* C20: init sends exactly one message, notificationPermissionChanged with the
\* current permission ("unsupported" without the Notification capability), and
\* nothing is sent before it.
Permission == IF NotificationApi = "absent" THEN "unsupported" ELSE NotificationApi

C20_PermissionFirst ==
    /\ [](~Ready => pwaIn = <<>>)
    /\ [](Ready => pwaIn # <<>> /\ pwaIn[1] = notificationPermissionChanged(Permission))
    /\ [][(~Ready /\ Ready') =>
            pwaIn' = <<notificationPermissionChanged(Permission)>>]_vars

C20_Witness ==
    /\ NotificationApi = "absent" /\ Len(pwaIn) = 2
    /\ pwaIn[1].tag = "notificationPermissionChanged" /\ pwaIn[1].permission = "unsupported"
    /\ pwaIn[2] = UpdateAvailable

\* -------------------------------------------- claims: permission and push
\* The subscriber handles a message with this tag in the step.
Dispatches(tag) == commands' = commands + 1 /\ msg'.tag = tag
\* The step makes this many more calls of the operation than it settles.
Calls(op, n) == pending'[op] = pending[op] + n
\* A promise of the operation settles in the step.
Settled(op) == pending'[op] = pending[op] - 1
\* The step sends nothing, or exactly this message.
Silent == pwaIn' = pwaIn
Sends(m) == pwaIn' = Append(pwaIn, m)
\* The messages of pwaIn with one of the tags.
Tagged(tags) == SelectSeq(pwaIn, LAMBDA m : m.tag \in tags)
Results == {"default", "granted", "denied"}
PermissionReports == Len(Tagged({"notificationPermissionChanged"}))

\* C21: a requestNotificationPermission command sends
\* notificationPermissionChanged("unsupported") at once and calls nothing when
\* the Notification API is absent, and otherwise makes exactly one
\* requestPermission() call and sends nothing yet; each request that resolves
\* sends exactly one notificationPermissionChanged carrying the result (the
\* permission the browser then holds); no other step of the push slice but
\* init reports a permission.
C21_RequestPermission ==
    /\ [][Dispatches("requestNotificationPermission") =>
            IF NotificationApi = "absent"
            THEN Sends(notificationPermissionChanged("unsupported")) /\ pending' = pending
            ELSE Silent /\ pending' = [pending EXCEPT !["requestPermission"] = @ + 1]]_vars
    /\ [][Settled("requestPermission") =>
            /\ NotificationApi' \in Results
            /\ Sends(notificationPermissionChanged(NotificationApi'))]_vars
    /\ [][PermissionReports' # PermissionReports =>
            \/ "pwaOut" \notin listeners
            \/ Dispatches("requestNotificationPermission") /\ NotificationApi = "absent"
            \/ Settled("requestPermission")]_vars

\* The user was asked once and granted the permission.
C21_Witness ==
    /\ msg.tag = "requestNotificationPermission"
    /\ commands = 1
    /\ pending = NonePending
    /\ PermissionReports = 2
    /\ pwaIn[1].permission = "default"
    /\ pwaIn[Len(pwaIn)] = notificationPermissionChanged("granted")

\* C22: a subscribePush command handled while the bridge holds no registration
\* (register() not called yet, still pending, or rejected) or while the
\* registration has no pushManager calls nothing and sends nothing.
C22_SubscribeNeedsRegistration ==
    [][Dispatches("subscribePush") /\ (registering # "fulfilled" \/ ~pushManager) =>
         Silent /\ pending' = pending /\ keyArray' = keyArray]_vars

\* subscribePush was handled while register() was still pending, in a browser
\* with the Push API.
C22_Witness ==
    /\ msg = Msg("subscribePush", UrlBase64(ServerKey))
    /\ registering = "pending"
    /\ pushManager
    /\ commands = 1
    /\ pending = NonePending
    /\ Tagged({"pushSubscription", "pushSubscriptionError"}) = <<>>

PushAnswers == {"pushSubscription", "pushSubscriptionError"}

\* C23: with a registration that has a pushManager, every subscribePush
\* command is answered by exactly one message: the command either starts a
\* subscribe() or reports the failure at once with one pushSubscriptionError;
\* every subscribe() that was started settles, and when it settles exactly one
\* message is sent, pushSubscription with the serialized subscription or
\* pushSubscriptionError with a non-empty text.
C23_SubscribeAnswered ==
    /\ [][Dispatches("subscribePush") /\ registering = "fulfilled" /\ pushManager =>
            \/ Calls("subscribe", 1) /\ Silent
            \/ /\ pending' = pending
               /\ \E m \in {pwaIn'[Len(pwaIn')]} :
                     /\ Sends(m)
                     /\ m.tag = "pushSubscriptionError"
                     /\ m.error # ""]_vars
    /\ [][Settled("subscribe") =>
            \E m \in {pwaIn'[Len(pwaIn')]} :
               /\ Sends(m)
               /\ \/ m = pushSubscription(subscription') /\ subscription' # Null
                  \/ m.tag = "pushSubscriptionError" /\ m.error # ""]_vars
    /\ [](pending["subscribe"] > 0 => <>(pending["subscribe"] = 0))

\* C24: the key the bridge hands to subscribe() is the key the backend encoded:
\* decoding the unpadded base64url text of a key gives back its bytes, for the
\* keys of 32 bytes as for the shorter ones, and never throws.
C24_DecodeInvertsEncode ==
    msg.tag = "subscribePush" =>
       /\ msg.vapidPublicKey = UrlBase64(applicationServerKey)
       /\ keyArray = applicationServerKey
       /\ pending["subscribe"] + Len(Tagged(PushAnswers)) = commands

\* A key of 32 bytes was decoded whose text has 43 characters, both url
\* characters among them.
C24_Witness ==
    /\ msg.tag = "subscribePush"
    /\ Len(msg.vapidPublicKey) = 43
    /\ {"-", "_"} \subseteq Chars(msg.vapidPublicKey)
    /\ Len(keyArray) = 32
    /\ pending["subscribe"] = 1

Unsubscribed == Len(Tagged({"pushUnsubscribed"}))

\* C25: an unsubscribePush command sends nothing itself; without a
\* registration or without its pushManager it calls nothing, otherwise it
\* looks the subscription up once.  A lookup that finds no subscription ends
\* there, one that finds a subscription calls its unsubscribe() once.
\* pushUnsubscribed is sent only when such an unsubscribe() settles, one
\* message at most, and always when it removed the subscription.
C25_Unsubscribe ==
    /\ [][Dispatches("unsubscribePush") =>
            /\ Silent
            /\ IF registering = "fulfilled" /\ pushManager
               THEN pending' = [pending EXCEPT !["getSubscription"] = @ + 1]
               ELSE pending' = pending]_vars
    /\ [][Settled("getSubscription") =>
            /\ Silent
            /\ Calls("unsubscribe", IF subscription # Null THEN 1 ELSE 0)]_vars
    /\ [][Unsubscribed' # Unsubscribed =>
            Settled("unsubscribe") /\ Sends(Inbound("pushUnsubscribed"))]_vars
    /\ [][subscription # Null /\ subscription' = Null =>
            Settled("unsubscribe") /\ Sends(Inbound("pushUnsubscribed"))]_vars

\* The subscription of an earlier visit was found and removed, and the
\* application was told once.
C25_Witness ==
    /\ msg.tag = "unsubscribePush"
    /\ commands = 1
    /\ pending = NonePending
    /\ subscription = Null
    /\ Unsubscribed = 1
    /\ pwaIn[Len(pwaIn)] = Inbound("pushUnsubscribed")

\* C26: when register() is fulfilled the bridge looks the subscription up once
\* if the registration has a pushManager (and not at all otherwise); the
\* lookup resolves, and when it does the bridge sends exactly one
\* pushSubscription carrying the subscription it found, or nothing when it
\* found none.
C26_SubscriptionAtRegistration ==
    /\ [][registering = "pending" /\ registering' = "fulfilled" =>
            IF pushManager
            THEN pending' = [pending EXCEPT !["registered.getSubscription"] = @ + 1]
            ELSE pending' = pending]_vars
    /\ [][Settled("registered.getSubscription") =>
            IF subscription # Null
            THEN Sends(pushSubscription(subscription))
            ELSE Silent]_vars
    /\ [](pending["registered.getSubscription"] > 0 =>
            <>(pending["registered.getSubscription"] = 0))

\* The subscription of an earlier visit was reported although the
\* application sent no command.
C26_Witness ==
    /\ commands = 0
    /\ registering = "fulfilled"
    /\ pending = NonePending
    /\ subscription = ExistingSubscription
    /\ Tagged({"pushSubscription"}) = <<pushSubscription(ExistingSubscription)>>

\* ------------------------------------------------- claims: notifications
\* The clients of the worker's origin, by position, and the first of them.
OfOrigin == {i \in DOMAIN clients : clients[i].url.origin = Origin}
FirstOfOrigin == CHOOSE i \in OfOrigin : \A j \in OfOrigin : i <= j
\* Messages posted to window i so far, delivered or not.
Posted(i) == Len(clients[i].messages)
\* Click c leaves this stage of its handler in the step.
Leaves(c, pc) == c \in DOMAIN clicks /\ clicks[c].pc = pc /\ clicks'[c].pc # pc
ClickMessage(url) == [tag |-> "notificationClicked", url |-> url]

\* C27: the notificationclick handler closes the notification and takes the
\* url from data.url, "/" when there is none.  When matchAll resolves it calls
\* focus() on the first window client of the worker's origin and opens
\* nothing, or, only when there is no such client, calls openWindow(url) and
\* focuses nothing.  When focus() is fulfilled exactly one message
\* {tag: "notificationClicked", url} is posted, to that client and to no other;
\* no click ever has both a focused client and a window opened for it.
C27_FocusOrOpen ==
    /\ [][Len(clicks') > Len(clicks) =>
            \E n \in DOMAIN notifications :
               /\ ~notifications[n].closed /\ notifications'[n].closed
               /\ clicks' = Append(clicks,
                                   [notification |-> n,
                                    url |-> IF notifications[n].options.data.url # ""
                                            THEN notifications[n].options.data.url
                                            ELSE "/",
                                    pc |-> "matchAll", client |-> 0])
               /\ clients' = clients /\ opened' = opened]_vars
    /\ [][\A c \in DOMAIN clicks : Leaves(c, "matchAll") =>
            IF OfOrigin # {}
            THEN /\ clicks'[c].pc = "focus" /\ clicks'[c].client = FirstOfOrigin
                 /\ opened' = opened /\ clients' = clients
            ELSE /\ clicks'[c].pc = "done" /\ clicks'[c].client = 0
                 /\ opened' = Append(opened, clicks[c].url)
                 /\ \A i \in DOMAIN clients : clients'[i] = clients[i]]_vars
    /\ [][\A c \in DOMAIN clicks : Leaves(c, "focus") =>
            /\ opened' = opened
            /\ \/ clients' = clients
               \/ clients' = [clients EXCEPT
                                ![clicks[c].client].focused = TRUE,
                                ![clicks[c].client].messages =
                                    Append(@, ClickMessage(clicks[c].url))]]_vars
    /\ [](Len(opened) = Cardinality({c \in DOMAIN clicks :
                                       clicks[c].pc = "done" /\ clicks[c].client = 0}))

\* With a window on about:blank first and the page second, the page was
\* focused and received the message; nothing was opened.
C27_Witness ==
    /\ Len(clients) = 2
    /\ clients[1].url.origin = "null"
    /\ clicks # <<>>
    /\ clicks[1] = [notification |-> 1, url |-> "/a", pc |-> "done", client |-> 2]
    /\ clients[2].focused
    /\ clients[2].messages = <<ClickMessage("/a")>>
    /\ ~clients[1].focused
    /\ opened = <<>>

\* The urls some window of the application has received as notificationClicked.
ReceivedUrls == UNION {{clients[i].received[k] : k \in DOMAIN clients[i].received} :
                         i \in DOMAIN clients}

\* C28: every click on a notification is eventually followed by a
\* notificationClicked event in the application, in one of its windows,
\* carrying the url of the notification's data ("/" when there is none).
C28_ClickReachesApplication ==
    \A c \in 1..MaxPushes :
       [](c \in DOMAIN clicks =>
            <>(c \in DOMAIN clicks /\ clicks[c].url \in ReceivedUrls))

\* C29: every push event has its notification, shown once: the k-th
\* notification belongs to the k-th push event; its title is "New
\* notification" without a payload, the payload's title (or "New
\* notification" when it has none) for a payload that parses as JSON, and the
\* payload's text for one that does not; its data is the payload's data, or an
\* empty object.
C29_AlwaysNotifies ==
    /\ Len(notifications) = Len(pushEvents)
    /\ \A k \in DOMAIN notifications :
          LET data == pushEvents[k]
              parsed == json(data.text)
              shown == notifications[k]
          IN /\ ~data.present => shown.title = "New notification"
             /\ data.present /\ parsed.kind # "throws" =>
                   /\ shown.title = Or(parsed.title, "New notification")
                   /\ shown.options.data = IF parsed.data.kind # "undefined"
                                           THEN parsed.data
                                           ELSE DataValue("object", "")
             /\ data.present /\ parsed.kind = "throws" =>
                   shown.title = Or(data.text, "New notification")

\* ----------------------------------------------------------- claims: build
\* The five fields generateSW knows.
Five(config) ==
    [f \in {"cacheName", "precacheUrls", "navigationFallback", "networkFirstPrefixes",
            "networkOnlyPrefixes"} \cap DOMAIN config |-> config[f]]

\* C30: two calls of generateSW whose configurations agree on the five fields
\* return the same output, whatever else the configuration objects hold and
\* whichever call came first.
C30_OnlyFiveFields ==
    \A i, j \in DOMAIN generated :
       Five(generated[i].config) = Five(generated[j].config) =>
          generated[i].output = generated[j].output

\* Two calls whose configurations differ in the sixth field only, with the
\* same output.
C30_Witness ==
    /\ Len(generated) = 2
    /\ generated[1].config # generated[2].config
    /\ Five(generated[1].config) = Five(generated[2].config)
    /\ generated[1].output = generated[2].output

\* A call that returned no worker source.
Failed(call) == DOMAIN call.output = {}

\* C31: a call of generateSW fails, returning no worker source, exactly when
\* its configuration lacks cacheName or precacheUrls.
C31_FailsOnMissingField ==
    \A i \in DOMAIN generated :
       Failed(generated[i]) <=>
          ~({"cacheName", "precacheUrls"} \subseteq DOMAIN generated[i].config)

\* ----------------------------------------------------- claims: decodeEvent
\* The variant of a tag, the field it takes its payload from (none for the
\* five tags without payload) and the type that field must have.
Variant(tag) ==
    CASE tag = "connectionChanged" -> <<"ConnectionChanged", "online", "bool">>
      [] tag = "updateAvailable" -> <<"UpdateAvailable", "", "">>
      [] tag = "installAvailable" -> <<"InstallAvailable", "", "">>
      [] tag = "installed" -> <<"Installed", "", "">>
      [] tag = "installedInBrowser" -> <<"InstalledInBrowser", "", "">>
      [] tag = "notificationPermissionChanged" ->
            <<"NotificationPermissionChanged", "permission", "string">>
      [] tag = "pushSubscription" -> <<"PushSubscription", "subscription", "any">>
      [] tag = "pushSubscriptionError" -> <<"PushSubscriptionError", "error", "string">>
      [] tag = "pushUnsubscribed" -> <<"PushUnsubscribed", "", "">>
      [] tag = "notificationClicked" -> <<"NotificationClicked", "url", "string">>
PermissionStates == {"granted", "denied", "default", "unsupported"}
\* The value is a well-formed message: a known tag, and the tag's field, if it
\* has one, present and of its type, a permission being one of the four.
WellFormed(value) ==
    /\ "tag" \in DOMAIN value
    /\ value.tag.type = "string"
    /\ value.tag.text \in Tags
    /\ LET field == Variant(value.tag.text)[2]
           type == Variant(value.tag.text)[3]
       IN field # "" =>
             /\ field \in DOMAIN value
             /\ type \in {"any", value[field].type}
             /\ field = "permission" => value[field].text \in PermissionStates

\* C32: decodeEvent succeeds exactly on the well-formed messages, with the
\* variant of the tag and the payload taken from the tag's field (the
\* permission as its PermissionState); on every other value it returns an
\* error and no event.
C32_DecodeEvent ==
    \A i \in DOMAIN decoded :
       LET value == decoded[i].value
           result == decoded[i].result
       IN /\ result.ok <=> WellFormed(value)
          /\ ~result.ok => result.event = ""
          /\ result.ok =>
                /\ result.event = Variant(value.tag.text)[1]
                /\ Variant(value.tag.text)[2] \notin {"", "permission"} =>
                      result.payload = value[Variant(value.tag.text)[2]]
                /\ Variant(value.tag.text)[2] = "permission" =>
                      result.payload.text \in {"Granted", "Denied", "Default", "Unsupported"}
                      /\ (result.payload.text = "Granted") = (value.permission.text = "granted")
                      /\ (result.payload.text = "Denied") = (value.permission.text = "denied")
                      /\ (result.payload.text = "Default") = (value.permission.text = "default")

\* A permission message with a string outside the four states was refused.
C32_Witness ==
    /\ decoded # <<>>
    /\ {"tag", "permission"} \subseteq DOMAIN decoded[1].value
    /\ decoded[1].value.tag = Json("string", "notificationPermissionChanged")
    /\ decoded[1].value.permission = Json("string", "Granted")
    /\ ~decoded[1].result.ok

\* --------------------------------------------------------- claims: commands
CommandTags == {"acceptUpdate", "requestInstall", "requestNotificationPermission",
                "subscribePush", "unsubscribePush"}
\* The step hands the bridge a command and nothing else happens in it.
Ignored == UNCHANGED <<workerVars, platformVars, hasServiceWorker, NotificationApi, onLine,
                       readyState, prompts, reloads, posted, browserEvents, bridgeVars,
                       pushManager, subscription, pending, codecVars, notificationVars,
                       generated, decoded>>

\* C33: a command whose tag is none of the five changes no state of the bridge
\* and emits nothing; a command value of the Elm module carries one of the
\* five tags, and the key of its subscribePush is the one the bridge decodes
\* when it subscribes.
C33_FiveCommands ==
    [][Commanded =>
          /\ msg'.tag \notin CommandTags => Ignored
          /\ msg' \in ElmCommands(UrlBase64(applicationServerKey)) =>
                /\ msg'.tag \in CommandTags
                /\ Calls("subscribe", 1) =>
                      msg'.tag = "subscribePush" /\ keyArray' = applicationServerKey
                /\ Calls("getSubscription", 1) => msg'.tag = "unsubscribePush"
                /\ Calls("requestPermission", 1) =>
                      msg'.tag = "requestNotificationPermission"
                /\ lookups' # lookups => msg'.tag = "acceptUpdate"
                /\ prompts' # prompts => msg'.tag = "requestInstall"]_vars

\* A second command, tagged RequestInstall, arrived while a prompt was retained
\* and no prompt was triggered.
C33_Witness ==
    /\ msg.tag = "RequestInstall"
    /\ deferredPrompt # Null
    /\ commands = 2
    /\ \A e \in DOMAIN prompts : prompts[e].prompted = 0

\* ----------------------------------------------------- claims: registration
\* The messages that come from a service worker or its registration.
WorkerTags == {"updateAvailable", "pushSubscription", "pushSubscriptionError",
               "pushUnsubscribed", "notificationClicked"}

\* C34: once init has run in a browser with service workers, register() is
\* called, and it is called once, not before the load event has fired; in a
\* browser without service workers it is never called and no message about a
\* worker is emitted.
C34_RegisteredOnce ==
    /\ (hasServiceWorker /\ Ready ~> registering # "none")
    /\ [][registering' # registering =>
             IF registering = "none"
             THEN registering' = "pending" /\ readyState' = "complete" /\ Ready
             ELSE registering = "pending" /\ registering' # "none"]_vars
    /\ [](~hasServiceWorker => registering = "none" /\ Tagged(WorkerTags) = <<>>)

\* --------------------------------------------------- claims: cache isolation
\* The store a worker's configuration names holds this response for the key.
InOwnStore(w, key, resp) ==
    /\ SW_CONFIG[w].cacheName \in StoreNames(caches)
    /\ resp = CacheMatch(caches[StoreIndex(caches, SW_CONFIG[w].cacheName)],
                         key.method, key.url)

\* C35: when a cache lookup of a fetch event resolves with a response (the
\* lookup of the navigation fallback, the cache-first lookup, or the lookup in
\* the network-first catch), the response is the entry of the store named by
\* the handling worker's configuration.
C35_AnsweredFromOwnStore ==
    [][\A e \in DOMAIN events :
          /\ events[e].pc \in {"match", "catch"}
          /\ events'[e].pc = "done"
          /\ IsResponse(events'[e].result)
          => InOwnStore(events[e].w,
                        IF events[e].pc = "match"
                        THEN MatchKey(SW_CONFIG[events[e].w], events[e])
                        ELSE [method |-> events[e].req.method, url |-> events[e].req.url],
                        events'[e].result)]_vars

\* The store of that name, as CacheStorage holds it.
Store(cs, n) == cs[StoreIndex(cs, n)]

\* C36: a step of a worker's install handler leaves every store but the one its
\* configuration names as it was, and a store ceases to exist only when a
\* caches.delete of an activating worker, whose configuration names another
\* store, resolves.
C36_InstallLeavesOtherStores ==
    [][/\ \A w \in Workers :
             installing'[w] # installing[w] =>
                \A n \in StoreNames(caches) \ {SW_CONFIG[w].cacheName} :
                   n \in StoreNames(caches') /\ Store(caches', n) = Store(caches, n)
       /\ \A n \in StoreNames(caches) \ StoreNames(caches') :
             \E w \in Workers :
                /\ state[w] = "activating"
                /\ n \in activating[w].pending
                /\ n # SW_CONFIG[w].cacheName
                /\ activating'[w].pending = activating[w].pending \ {n}]_vars

\* The second version has installed and waits beside the active first one: its
\* store holds what it precached and the first store what the first version
\* precached.
C36_Witness ==
    /\ state = <<"activated", "installed">>
    /\ StoreNames(caches) = {"v1", "v2"}
    /\ \A w \in Workers :
          \A i \in DOMAIN SW_CONFIG[w].precacheUrls :
             Store(caches, SW_CONFIG[w].cacheName).entries[SW_CONFIG[w].precacheUrls[i]]
                = Response(SW_CONFIG[w].precacheUrls[i], TRUE, InstallOf(w))
    /\ SW_CONFIG[1].precacheUrls # SW_CONFIG[2].precacheUrls

\* ------------------------------------------------ claims: stores after activate
\* The stores of the versions deployed after w whose install handler has
\* opened its store.
LaterStores(w) ==
    {SW_CONFIG[v].cacheName :
        v \in {u \in Workers : u > w /\ installing[u].pc \notin {"idle", "open"}}}

\* C37 as stated: while a worker is the activated one, the only store that
\* exists is the one its configuration names.
C37_OnlyOwnStore ==
    \A w \in Workers :
       state[w] = "activated" => StoreNames(caches) \subseteq {SW_CONFIG[w].cacheName}

\* C37, amended: while a worker is the activated one, the stores that exist are
\* the one its configuration names and those opened by the install of a later
\* version; no store its activation deleted exists again, whatever cache
\* writes the replaced worker had pending.
C37_NoOldStoreAgain ==
    \A w \in Workers :
       state[w] = "activated" =>
          StoreNames(caches) \subseteq {SW_CONFIG[w].cacheName} \cup LaterStores(w)

\* The second version is activated, the first had a network-first cache
\* write pending when it was replaced, and the second's store is the only one.
C37_Witness ==
    /\ state[2] = "activated"
    /\ \E e \in DOMAIN events : events[e].w = 1 /\ events[e].put = "dropped"
    /\ StoreNames(caches) = {"v2"}

\* ------------------------------------------------- claims: inbound messages
\* C38: every message the bridge has sent on pwaIn is a value decodeEvent
\* accepts.
C38_EveryMessageDecodes ==
    \A i \in DOMAIN pwaIn : decodeEvent(Wire(pwaIn[i])).ok

\* ---------------------------------------------- claims: overlapping prompts
\* C39: the last beforeinstallprompt event the bridge captured, as long as
\* prompt() was not called on it, is the retained one, whatever earlier
\* choices have resolved since: a requestInstall triggers it.
C39_NewPromptKept ==
    \A e \in DOMAIN prompts :
       (e = Len(prompts) /\ prompts[e].defaultPrevented /\ prompts[e].prompted = 0)
          => /\ deferredPrompt = e
             /\ requestInstall(deferredPrompt) = {e}

\* ---------------------------------------------------- claims: self-promotion
\* The message is, or was, on its way to some version.
SkipWaitingSent ==
    \E v \in Versions :
       skipWaitingFlag[v] \/ \E i \in DOMAIN inbox[v] : inbox[v][i] = SKIP_WAITING

\* C40: a version's skip waiting flag is set only by its handling of a
\* SKIP_WAITING message; the bridge sends that message only when the
\* getRegistration() of an acceptUpdate command resolves; a version takes over
\* a controlled page only with its flag set, and the page is reloaded only
\* then: none of it happens before a command.
C40_NoSelfPromotion ==
    /\ [][\A v \in Versions :
             /\ skipWaitingFlag'[v] /\ ~skipWaitingFlag[v] =>
                   Handles(v) /\ Head(inbox[v]) = SKIP_WAITING
             /\ (Len(inbox'[v]) > Len(inbox[v]) /\ inbox'[v][Len(inbox'[v])] = SKIP_WAITING) =>
                   lookups' = lookups - 1 /\ v = RegWaiting]_vars
    /\ [][lookups' > lookups => Commanded /\ msg'.tag = "acceptUpdate"]_vars
    /\ [][/\ (controller # Null /\ controller' # controller) =>
                skipWaitingFlag[controller'] /\ swState[controller'] = "installed"
          /\ reloads' # reloads =>
                controller # Null /\ controller' # controller /\ reloads' = 1]_vars
    /\ []((SkipWaitingSent \/ reloads > 0) => commands > 0)

\* The page was taken over by the version that waited, and reloaded, after one
\* acceptUpdate command.
C40_Witness ==
    /\ commands = 1
    /\ msg.tag = "acceptUpdate"
    /\ reloads = 1
    /\ controller = 2
    /\ skipWaitingFlag[2]

====
